---- MODULE Spec2Model ----
(***************************************************************************)
(* Model of the note mutation core of the note-taking service             *)
(* (src/src/services/noteService.js) over its MySQL store.                 *)
(*                                                                         *)
(* Store semantics (dialect "mysql", InnoDB defaults, no isolationLevel    *)
(* and no lock option passed by the service):                              *)
(*  - a SELECT inside a transaction is a non-locking consistent read of    *)
(*    the committed state;                                                 *)
(*  - an UPDATE of a notes row takes the row's exclusive lock, waits while *)
(*    another transaction holds it, and is then applied to the latest      *)
(*    committed row; the lock is kept until commit or rollback;            *)
(*  - statements issued without a transaction autocommit.                  *)
(* A request is one call of a NoteService method; its steps are the awaits *)
(* of the method that touch the store or the cache.                        *)
(***************************************************************************)
EXTENDS Integers, Sequences, FiniteSets, TLC

\* ---- bounds of the model -------------------------------------------------
NumProcs == 2
MaxRequests == 3
MaxNotes == 1
NumUsers == 2
MaxVersionArg == 3
NumClients == 1
MaxHttpRequests == 3
MaxEpoch == 2
MaxAuthRequests == 4
MaxFillGets == 2
MaxFillUpdates == 1

Procs == 1..NumProcs
Users == 1..NumUsers
UserIds == 1..(NumUsers + 1)
NoteIds == 1..MaxNotes
VersionArgs == 0..MaxVersionArg
Clients == 1..NumClients
Inputs == {<<"t1", "c1">>, <<"t2", "c1">>, <<"t1", "c2">>}
Permissions == {"read", "edit"}
Files == {"f1"}
Keywords == {"t1"}

\* ---- error messages of the service --------------------------------------
ErrNotFound == "Note not found"
ErrDenied == "Permission denied"
ErrConflict == "Note has been modified by another user. Please refresh and try again."
ErrNotFoundOrDenied == "Note not found or permission denied"
ErrVersionNotFound == "Version not found"
ErrSelfShare == "Cannot share note with yourself"
ErrUserNotFound == "User not found"
ErrAccessDenied == "Note not found or access denied"
ErrStorage == "storage failure"
Ok == "ok"
None == "none"

VARIABLES notes, versions, shares, attachments, rowLock, req, resp, started, log,
          redisOpen, redisUp, cache, epoch, hreq, hresp, hcount,
          stored, issued, aresp

\* the store and the calls of the note service
svc == <<notes, versions, shares, attachments, rowLock, req, resp, started, log>>
\* the Redis client and server, shared by the cache and the auth controller
redis == <<redisOpen, redisUp>>
\* the HTTP layer of the note routes: cached responses, the data the handlers
\* read, the request in flight and the last response
http == <<cache, epoch, hreq, hresp, hcount>>
\* the refresh tokens of the auth controller
auth == <<stored, issued, aresp>>
\* what no call of the note service touches
outside == <<redis, http, auth>>

vars == <<svc, outside>>

\* ---- rows ----------------------------------------------------------------
NoNote == [id |-> 0, userId |-> 0, title |-> "", content |-> "", version |-> 0, deleted |-> FALSE]
NoVersion == [noteId |-> 0, version |-> 0, title |-> "", content |-> "", changedBy |-> 0]

Note(id, userId, title, content) ==
    [id |-> id, userId |-> userId, title |-> title, content |-> content,
     version |-> 1, deleted |-> FALSE]

NoteVersion(noteId, title, content, version, changedBy) ==
    [noteId |-> noteId, version |-> version, title |-> title, content |-> content,
     changedBy |-> changedBy]

NoteShare(noteId, sharedWithUserId, permission) ==
    [noteId |-> noteId, sharedWithUserId |-> sharedWithUserId, permission |-> permission]

NoteAttachment(noteId, file) == [noteId |-> noteId, filename |-> file]

\* ---- a request slot ------------------------------------------------------
IdleReq ==
    [op |-> None, pc |-> "done", noteId |-> 0, userId |-> 0, title |-> "", content |-> "",
     ver |-> 0, sharedWith |-> 0, permission |-> "", loaded |-> NoNote, note |-> NoNote,
     target |-> NoVersion]

\* what the caller of a finished request observes: the call, its outcome, the
\* state of its transaction and the users whose cache was invalidated; for
\* shareNote the target user, for a read the ids of the notes returned; and
\* the number of cache signals of the call that were logged as failed
Response(op, noteId, userId, ver, result, tx, inv) ==
    [op |-> op, noteId |-> noteId, userId |-> userId, ver |-> ver, sharedWith |-> 0,
     rows |-> {}, result |-> result, tx |-> tx, inv |-> inv, cacheErrors |-> 0]

NoResponse == Response(None, 0, 0, 0, None, None, {})

\* history of the version store: for row i of versions, the operation that
\* appended it and the note version that operation had loaded
LogEntry(op, from) == [op |-> op, from |-> from]

CanStart(p) == req[p].pc = "done" /\ started < MaxRequests

\* ---- queries -------------------------------------------------------------
\* variant: the deletedAt filter is missing
FindLiveNote_withDeleted(n) ==
    IF n \in 1..Len(notes) THEN notes[n] ELSE NoNote

\* Note.findOne({ where: { id, deletedAt: null } })
FindLiveNote(n) ==
    IF n \in 1..Len(notes) /\ ~notes[n].deleted THEN notes[n] ELSE NoNote

\* the "shares" include of updateNote / addAttachment
HasEditShare(n, u) ==
    \E s \in shares : s.noteId = n /\ s.sharedWithUserId = u /\ s.permission = "edit"

\* rows of NoteVersion.findOne({ where: { noteId, version } })
VersionRows(n, v) ==
    {i \in 1..Len(versions) : versions[i].noteId = n /\ versions[i].version = v}

\* instance.save() writes only the attributes whose value changed
SavedRow(row, loaded, inst) ==
    [row EXCEPT !.title = IF inst.title # loaded.title THEN inst.title ELSE row.title,
                !.content = IF inst.content # loaded.content THEN inst.content ELSE row.content,
                !.version = IF inst.version # loaded.version THEN inst.version ELSE row.version]

\* ---- an HTTP request to the note router ----------------------------------
\* what a handler puts in a response: the user it was computed for, the
\* handler that computed it, the state of the data it was computed from and
\* the outcome of the service call
Body(u, handler, e, result) ==
    [for |-> u, handler |-> handler, epoch |-> e, result |-> result]
NoBody == Body(0, "", 0, None)

\* req and res of a request in flight: the position in the middleware chain,
\* the calls of next and res.json so far, whether res.json is the caching
\* override, the outcome of the service call, the number of version rows the
\* store held when a handler read it, and the patterns still to signal
IdleHttp ==
    [pc |-> "idle", method |-> "", path |-> <<>>, query |-> <<>>, user |-> 0,
     handler |-> "", nextCalls |-> 0, jsonCalls |-> 0, store |-> FALSE,
     outcome |-> None, read |-> 0, pending |-> <<>>]

\* what the client receives
HttpResponse(r, status, body, fromCache) ==
    [method |-> r.method, path |-> r.path, query |-> r.query, user |-> r.user,
     handler |-> r.handler, status |-> status, body |-> body, fromCache |-> fromCache,
     nextCalls |-> r.nextCalls, jsonCalls |-> r.jsonCalls, outcome |-> r.outcome]

NoHttpResponse == HttpResponse(IdleHttp, 0, NoBody, FALSE)

\* ---- refresh tokens -------------------------------------------------------
\* a signed refresh token: the user of its payload and the sign call it is from
Token(u, k) == [user |-> u, serial |-> k]
NoToken == Token(0, 0)

\* the answer to the seq-th request to the auth routes: its status, the
\* refresh token in it or presented with it, and whether it carries an access
\* token
AuthResponse(seq, op, token, status, access) ==
    [seq |-> seq, op |-> op, token |-> token, status |-> status, access |-> access]

NoAuthResponse == AuthResponse(0, None, NoToken, 0, FALSE)

\* startServer has connected the Redis client before the server listens
Init ==
    /\ notes = <<>>
    /\ versions = <<>>
    /\ shares = {}
    /\ attachments = <<>>
    /\ rowLock = [n \in NoteIds |-> 0]
    /\ req = [p \in Procs |-> IdleReq]
    /\ resp = NoResponse
    /\ started = 0
    /\ log = <<>>
    /\ redisOpen = TRUE
    /\ redisUp = TRUE
    /\ cache = {}
    /\ epoch = 0
    /\ hreq = [c \in Clients |-> IdleHttp]
    /\ hresp = NoHttpResponse
    /\ hcount = 0
    /\ stored = [u \in Users |-> NoToken]
    /\ issued = {}
    /\ aresp = NoAuthResponse

\* the request of slot p returns or throws: the slot is free again
ReturnLogged(p, result, tx, inv, errors) ==
    /\ req' = [req EXCEPT ![p] = IdleReq]
    /\ resp' = [Response(req[p].op, req[p].noteId, req[p].userId, req[p].ver, result, tx, inv)
                   EXCEPT !.sharedWith = req[p].sharedWith, !.cacheErrors = errors]

Return(p, result, tx, inv) == ReturnLogged(p, result, tx, inv, 0)

\* the writes of the request are done; what is left is the cache signal, which
\* uses the caller's id (and the target user's id for shareNote) only
AfterWrites(p) ==
    [IdleReq EXCEPT !.op = req[p].op, !.pc = "invalidate", !.noteId = req[p].noteId,
                    !.userId = req[p].userId, !.ver = req[p].ver,
                    !.sharedWith = req[p].sharedWith]

\* a request that throws before its first await on a write
Throw(op, n, u, ver, result, tx) ==
    /\ req' = req
    /\ resp' = Response(op, n, u, ver, result, tx, {})

\* ---- the response cache --------------------------------------------------
\* Texts are sequences of tokens: a URL is the tokens of its path and query, a
\* cache key or a pattern the tokens of the template literal that builds it.
Digits == <<"1", "2", "3", "4", "5", "6", "7", "8", "9">>
\* `${userId}`
IdText(u) == Digits[u]

\* app.use("/api", routes) and router.use("/notes", noteRoutes)
MountPath == <<"/api", "/notes">>

\* req.originalUrl of a request to the note router
OriginalUrl(path, query) == MountPath \o path \o query

\* variant: the key has no user id
CacheKey_noUser(url, u) == <<"cache:">> \o url

\* `cache:${req.originalUrl}:${req.user?.id || "anonymous"}`
CacheKey(url, u) == <<"cache:">> \o url \o <<":", IdText(u)>>

\* `cache:/api/v1/notes*:${userId}`
InvalidationPattern(u) == <<"cache:", "/api", "/v1", "/notes", "*", ":", IdText(u)>>

\* KEYS pattern: a "*" stands for any run of characters, every other token
\* for itself
RECURSIVE GlobMatch(_, _)
GlobMatch(pat, key) ==
    IF pat = <<>> THEN key = <<>>
    ELSE IF Head(pat) = "*"
         THEN GlobMatch(Tail(pat), key) \/ (key # <<>> /\ GlobMatch(pat, Tail(key)))
         ELSE key # <<>> /\ Head(key) = Head(pat) /\ GlobMatch(Tail(pat), Tail(key))

\* an entry of the cache: the key and the body that setEx stored under it
CacheEntry(key, body) == [key |-> key, body |-> body]

\* redisClient.keys(pattern) followed by redisClient.del(keys)
Sweep(c, pattern) == {e \in c : ~GlobMatch(pattern, e.key)}

\* variant: an error of connect, keys or del leaves invalidateCache
invalidateCache_rethrow(c, open, up, pattern) ==
    IF ~up THEN [cache |-> c, open |-> open, threw |-> TRUE, errors |-> 1]
    ELSE [cache |-> Sweep(c, pattern), open |-> TRUE, threw |-> FALSE, errors |-> 0]

\* invalidateCache(pattern), from the cache c and the client state open, with
\* the server reachable or not: a client that is not open connects first, and
\* returns if that fails; an error of keys or del is logged and not rethrown
invalidateCache(c, open, up, pattern) ==
    IF ~open /\ ~up THEN [cache |-> c, open |-> FALSE, threw |-> FALSE, errors |-> 1]
    ELSE IF ~up THEN [cache |-> c, open |-> open, threw |-> FALSE, errors |-> 1]
    ELSE [cache |-> Sweep(c, pattern), open |-> TRUE, threw |-> FALSE, errors |-> 0]

\* the awaited invalidateCache calls of one service method, in order, and the
\* number of them that logged a failure; a call that throws ends the method
RECURSIVE InvalidateAll(_, _, _, _)
InvalidateAll(c, open, up, us) ==
    IF us = <<>> THEN [cache |-> c, open |-> open, threw |-> FALSE, errors |-> 0]
    ELSE LET r == invalidateCache(c, open, up, InvalidationPattern(Head(us)))
             rest == InvalidateAll(r.cache, r.open, up, Tail(us))
         IN  IF r.threw THEN r ELSE [rest EXCEPT !.errors = r.errors + rest.errors]

\* the cache signal that ends a service method, and the method's return
Invalidate(p, tx, us) ==
    LET r == InvalidateAll(cache, redisOpen, redisUp, us)
    IN  /\ cache' = r.cache
        /\ redisOpen' = r.open
        /\ ReturnLogged(p, IF r.threw THEN ErrStorage ELSE Ok, tx,
                        {us[i] : i \in 1..Len(us)}, r.errors)

\* what an invalidate step of the service leaves alone
NotInvalidated == <<redisUp, epoch, hreq, hresp, hcount, auth>>

\* ---- createNote ----------------------------------------------------------
createNote_note(p, u, in) ==
    /\ CanStart(p)
    /\ Len(notes) < MaxNotes
    /\ notes' = Append(notes, Note(Len(notes) + 1, u, in[1], in[2]))
    /\ req' = [req EXCEPT ![p] = [IdleReq EXCEPT !.op = "createNote", !.pc = "version",
                  !.noteId = Len(notes) + 1, !.userId = u, !.title = in[1], !.content = in[2],
                  !.note = Note(Len(notes) + 1, u, in[1], in[2])]]
    /\ started' = started + 1
    /\ UNCHANGED <<outside, versions, shares, attachments, rowLock, resp, log>>

\* variant: the initial row is numbered 0
createNote_version_fromZero(p) ==
    /\ req[p].op = "createNote" /\ req[p].pc = "version"
    /\ versions' = Append(versions,
           NoteVersion(req[p].note.id, req[p].title, req[p].content, 0, req[p].userId))
    /\ log' = Append(log, LogEntry("createNote", 0))
    /\ req' = [req EXCEPT ![p] = AfterWrites(p)]
    /\ UNCHANGED <<outside, notes, shares, attachments, rowLock, resp, started>>

createNote_version(p) ==
    /\ req[p].op = "createNote" /\ req[p].pc = "version"
    /\ versions' = Append(versions,
           NoteVersion(req[p].note.id, req[p].title, req[p].content, 1, req[p].userId))
    /\ log' = Append(log, LogEntry("createNote", 0))
    /\ req' = [req EXCEPT ![p] = AfterWrites(p)]
    /\ UNCHANGED <<outside, notes, shares, attachments, rowLock, resp, started>>

createNote_invalidate(p) ==
    /\ req[p].op = "createNote" /\ req[p].pc = "invalidate"
    /\ Invalidate(p, None, <<req[p].userId>>)
    /\ UNCHANGED <<NotInvalidated, notes, versions, shares, attachments, rowLock, started, log>>

\* NoteVersion.create rejects: the error leaves createNote, the notes row stays
createNote_fail(p) ==
    /\ req[p].op = "createNote" /\ req[p].pc = "version"
    /\ Return(p, ErrStorage, None, {})
    /\ UNCHANGED <<outside, notes, versions, shares, attachments, rowLock, started, log>>

\* ---- updateNote ----------------------------------------------------------
\* the three checks between findOne and the first write
updateNote_check_noVersion(row, hasEdit, userId, expectedVersion) ==
    IF row = NoNote THEN ErrNotFound
    ELSE IF row.userId # userId /\ ~hasEdit THEN ErrDenied
    ELSE None

\* variant: the version is compared before the permission is checked
updateNote_check_versionFirst(row, hasEdit, userId, expectedVersion) ==
    IF row = NoNote THEN ErrNotFound
    ELSE IF row.version # expectedVersion THEN ErrConflict
    ELSE IF row.userId # userId /\ ~hasEdit THEN ErrDenied
    ELSE None

updateNote_check(row, hasEdit, userId, expectedVersion) ==
    IF row = NoNote THEN ErrNotFound
    ELSE IF row.userId # userId /\ ~hasEdit THEN ErrDenied
    ELSE IF row.version # expectedVersion THEN ErrConflict
    ELSE None

updateNote_assign(row, title, content) ==
    [row EXCEPT !.title = title, !.content = content, !.version = row.version + 1]

\* variant: the cache signal sits in a finally block
updateNote_load_finally(p, n, u, in, ev) ==
    /\ CanStart(p)
    /\ LET row == FindLiveNote(n)
           err == updateNote_check(row, HasEditShare(n, u), u, ev)
       IN IF err = None
          THEN /\ req' = [req EXCEPT ![p] = [IdleReq EXCEPT !.op = "updateNote",
                     !.pc = "save", !.noteId = n, !.userId = u, !.title = in[1],
                     !.content = in[2], !.ver = ev, !.loaded = row,
                     !.note = updateNote_assign(row, in[1], in[2])]]
               /\ resp' = resp
          ELSE /\ req' = req
               /\ resp' = Response("updateNote", n, u, ev, err, "rolledback", {u})
    /\ started' = started + 1
    /\ UNCHANGED <<outside, notes, versions, shares, attachments, rowLock, log>>

updateNote_load(p, n, u, in, ev) ==
    /\ CanStart(p)
    /\ LET row == FindLiveNote(n)
           err == updateNote_check(row, HasEditShare(n, u), u, ev)
       IN IF err = None
          THEN /\ req' = [req EXCEPT ![p] = [IdleReq EXCEPT !.op = "updateNote",
                     !.pc = "save", !.noteId = n, !.userId = u, !.title = in[1],
                     !.content = in[2], !.ver = ev, !.loaded = row,
                     !.note = updateNote_assign(row, in[1], in[2])]]
               /\ resp' = resp
          ELSE Throw("updateNote", n, u, ev, err, "rolledback")
    /\ started' = started + 1
    /\ UNCHANGED <<outside, notes, versions, shares, attachments, rowLock, log>>

\* variant: save() without the transaction option autocommits
updateNote_save_noTx(p) ==
    /\ req[p].op = "updateNote" /\ req[p].pc = "save"
    /\ rowLock[req[p].noteId] = 0
    /\ notes' = [notes EXCEPT ![req[p].noteId] =
           SavedRow(notes[req[p].noteId], req[p].loaded, req[p].note)]
    /\ req' = [req EXCEPT ![p].pc = "createVersion"]
    /\ UNCHANGED <<outside, versions, shares, attachments, rowLock, resp, started, log>>

updateNote_save(p) ==
    /\ req[p].op = "updateNote" /\ req[p].pc = "save"
    /\ rowLock[req[p].noteId] = 0
    /\ rowLock' = [rowLock EXCEPT ![req[p].noteId] = p]
    /\ req' = [req EXCEPT ![p].pc = "createVersion"]
    /\ UNCHANGED <<outside, notes, versions, shares, attachments, resp, started, log>>

updateNote_createVersion(p) ==
    /\ req[p].op = "updateNote" /\ req[p].pc = "createVersion"
    /\ req' = [req EXCEPT ![p].pc = "commit"]
    /\ UNCHANGED <<outside, notes, versions, shares, attachments, rowLock, resp, started, log>>

updateNote_commit(p) ==
    /\ req[p].op = "updateNote" /\ req[p].pc = "commit"
    /\ LET n == req[p].noteId IN
         /\ notes' = [notes EXCEPT ![n] = SavedRow(notes[n], req[p].loaded, req[p].note)]
         /\ versions' = Append(versions,
                NoteVersion(req[p].note.id, req[p].title, req[p].content,
                            req[p].note.version, req[p].userId))
         /\ log' = Append(log, LogEntry("updateNote", req[p].loaded.version))
         /\ rowLock' = [rowLock EXCEPT ![n] = 0]
    /\ req' = [req EXCEPT ![p] = AfterWrites(p)]
    /\ UNCHANGED <<outside, shares, attachments, resp, started>>

updateNote_invalidate(p) ==
    /\ req[p].op = "updateNote" /\ req[p].pc = "invalidate"
    /\ Invalidate(p, "committed", <<req[p].userId>>)
    /\ UNCHANGED <<NotInvalidated, notes, versions, shares, attachments, rowLock, started, log>>

\* variant: the catch block signals the cache too
updateNote_rollback_invalidate(p) ==
    /\ req[p].op = "updateNote" /\ req[p].pc \in {"save", "createVersion", "commit"}
    /\ rowLock' = [n \in NoteIds |-> IF rowLock[n] = p THEN 0 ELSE rowLock[n]]
    /\ Return(p, ErrStorage, "rolledback", {req[p].userId})
    /\ UNCHANGED <<outside, notes, versions, shares, attachments, started, log>>

\* variant: the catch block rethrows without the rollback
updateNote_rollback_leaveOpen(p) ==
    /\ req[p].op = "updateNote" /\ req[p].pc \in {"save", "createVersion", "commit"}
    /\ Return(p, ErrStorage, "open", {})
    /\ UNCHANGED <<outside, notes, versions, shares, attachments, rowLock, started, log>>

\* catch: rollback and rethrow, for an error of save, create or commit
updateNote_rollback(p) ==
    /\ req[p].op = "updateNote" /\ req[p].pc \in {"save", "createVersion", "commit"}
    /\ rowLock' = [n \in NoteIds |-> IF rowLock[n] = p THEN 0 ELSE rowLock[n]]
    /\ Return(p, ErrStorage, "rolledback", {})
    /\ UNCHANGED <<outside, notes, versions, shares, attachments, started, log>>

\* ---- revertToVersion -----------------------------------------------------
\* variant: the counter is rewound to the target
revertToVersion_assign_rewind(row, target) ==
    [row EXCEPT !.title = target.title, !.content = target.content,
                !.version = target.version]

revertToVersion_assign(row, target) ==
    [row EXCEPT !.title = target.title, !.content = target.content,
                !.version = row.version + 1]

\* variant: an edit share is accepted in place of ownership
FindOwnedLiveNote_orEditor(n, u) ==
    IF FindLiveNote(n).userId = u \/ (FindLiveNote(n) # NoNote /\ HasEditShare(n, u))
    THEN FindLiveNote(n) ELSE NoNote

\* Note.findOne({ where: { id, userId, deletedAt: null } })
FindOwnedLiveNote(n, u) ==
    IF FindLiveNote(n).userId = u THEN FindLiveNote(n) ELSE NoNote

\* variant: the target is looked for by range, not in the version store
revertToVersion_load_range(p, n, u, tv) ==
    /\ CanStart(p)
    /\ LET row == FindOwnedLiveNote(n, u)
       IN \/ /\ row = NoNote
             /\ Throw("revertToVersion", n, u, tv, ErrNotFoundOrDenied, "rolledback")
          \/ /\ row # NoNote /\ (tv < 1 \/ tv > row.version)
             /\ Throw("revertToVersion", n, u, tv, ErrVersionNotFound, "rolledback")
          \/ /\ row # NoNote /\ tv >= 1 /\ tv <= row.version
             /\ \E t \in {versions[i] : i \in VersionRows(n, tv)}
                        \cup (IF VersionRows(n, tv) = {} THEN {NoVersion} ELSE {}) :
                  req' = [req EXCEPT ![p] = [IdleReq EXCEPT !.op = "revertToVersion",
                     !.pc = "save", !.noteId = n, !.userId = u, !.ver = tv,
                     !.loaded = row, !.target = t,
                     !.note = revertToVersion_assign(row, t)]]
             /\ resp' = resp
    /\ started' = started + 1
    /\ UNCHANGED <<outside, notes, versions, shares, attachments, rowLock, log>>

revertToVersion_load(p, n, u, tv) ==
    /\ CanStart(p)
    /\ LET row == FindOwnedLiveNote(n, u)
       IN \/ /\ row = NoNote
             /\ Throw("revertToVersion", n, u, tv, ErrNotFoundOrDenied, "rolledback")
          \/ /\ row # NoNote /\ VersionRows(n, tv) = {}
             /\ Throw("revertToVersion", n, u, tv, ErrVersionNotFound, "rolledback")
          \/ /\ row # NoNote
             /\ \E i \in VersionRows(n, tv) :
                  req' = [req EXCEPT ![p] = [IdleReq EXCEPT !.op = "revertToVersion",
                     !.pc = "save", !.noteId = n, !.userId = u, !.ver = tv,
                     !.loaded = row, !.target = versions[i],
                     !.note = revertToVersion_assign(row, versions[i])]]
             /\ resp' = resp
    /\ started' = started + 1
    /\ UNCHANGED <<outside, notes, versions, shares, attachments, rowLock, log>>

revertToVersion_save(p) ==
    /\ req[p].op = "revertToVersion" /\ req[p].pc = "save"
    /\ rowLock[req[p].noteId] = 0
    /\ rowLock' = [rowLock EXCEPT ![req[p].noteId] = p]
    /\ req' = [req EXCEPT ![p].pc = "createVersion"]
    /\ UNCHANGED <<outside, notes, versions, shares, attachments, resp, started, log>>

revertToVersion_createVersion(p) ==
    /\ req[p].op = "revertToVersion" /\ req[p].pc = "createVersion"
    /\ req' = [req EXCEPT ![p].pc = "commit"]
    /\ UNCHANGED <<outside, notes, versions, shares, attachments, rowLock, resp, started, log>>

\* variant: the head row of the history is overwritten instead of a row appended
revertToVersion_commit_overwrite(p) ==
    /\ req[p].op = "revertToVersion" /\ req[p].pc = "commit"
    /\ LET n == req[p].noteId IN
         /\ notes' = [notes EXCEPT ![n] = SavedRow(notes[n], req[p].loaded, req[p].note)]
         /\ versions' = [versions EXCEPT ![Len(versions)] =
                NoteVersion(req[p].note.id, req[p].target.title, req[p].target.content,
                            req[p].note.version, req[p].userId)]
         /\ log' = [log EXCEPT ![Len(log)] =
                LogEntry("revertToVersion", req[p].loaded.version)]
         /\ rowLock' = [rowLock EXCEPT ![n] = 0]
    /\ req' = [req EXCEPT ![p] = AfterWrites(p)]
    /\ UNCHANGED <<outside, shares, attachments, resp, started>>

revertToVersion_commit(p) ==
    /\ req[p].op = "revertToVersion" /\ req[p].pc = "commit"
    /\ LET n == req[p].noteId IN
         /\ notes' = [notes EXCEPT ![n] = SavedRow(notes[n], req[p].loaded, req[p].note)]
         /\ versions' = Append(versions,
                NoteVersion(req[p].note.id, req[p].target.title, req[p].target.content,
                            req[p].note.version, req[p].userId))
         /\ log' = Append(log, LogEntry("revertToVersion", req[p].loaded.version))
         /\ rowLock' = [rowLock EXCEPT ![n] = 0]
    /\ req' = [req EXCEPT ![p] = AfterWrites(p)]
    /\ UNCHANGED <<outside, shares, attachments, resp, started>>

revertToVersion_invalidate(p) ==
    /\ req[p].op = "revertToVersion" /\ req[p].pc = "invalidate"
    /\ Invalidate(p, "committed", <<req[p].userId>>)
    /\ UNCHANGED <<NotInvalidated, notes, versions, shares, attachments, rowLock, started, log>>

revertToVersion_rollback(p) ==
    /\ req[p].op = "revertToVersion" /\ req[p].pc \in {"save", "createVersion", "commit"}
    /\ rowLock' = [n \in NoteIds |-> IF rowLock[n] = p THEN 0 ELSE rowLock[n]]
    /\ Return(p, ErrStorage, "rolledback", {})
    /\ UNCHANGED <<outside, notes, versions, shares, attachments, started, log>>

\* ---- deleteNote ----------------------------------------------------------
deleteNote_load(p, n, u) ==
    /\ CanStart(p)
    /\ LET row == FindOwnedLiveNote(n, u)
       IN IF row = NoNote
          THEN Throw("deleteNote", n, u, 0, ErrNotFoundOrDenied, None)
          ELSE /\ req' = [req EXCEPT ![p] = [IdleReq EXCEPT !.op = "deleteNote",
                     !.pc = "destroy", !.noteId = n, !.userId = u, !.loaded = row,
                     !.note = row]]
               /\ resp' = resp
    /\ started' = started + 1
    /\ UNCHANGED <<outside, notes, versions, shares, attachments, rowLock, log>>

\* note.destroy() on a paranoid model: UPDATE notes SET deletedAt = now
deleteNote_destroy(p) ==
    /\ req[p].op = "deleteNote" /\ req[p].pc = "destroy"
    /\ rowLock[req[p].noteId] = 0
    /\ notes' = [notes EXCEPT ![req[p].noteId].deleted = TRUE]
    /\ req' = [req EXCEPT ![p] = AfterWrites(p)]
    /\ UNCHANGED <<outside, versions, shares, attachments, rowLock, resp, started, log>>

deleteNote_invalidate(p) ==
    /\ req[p].op = "deleteNote" /\ req[p].pc = "invalidate"
    /\ Invalidate(p, None, <<req[p].userId>>)
    /\ UNCHANGED <<NotInvalidated, notes, versions, shares, attachments, rowLock, started, log>>

\* ---- shareNote -----------------------------------------------------------
PermissionOrDefault(permission) == IF permission = "" THEN "read" ELSE permission

\* variant: the caller is not compared with the target
shareNote_check_noSelf(row, ownerId, sharedWithUserId) ==
    IF row = NoNote THEN ErrNotFoundOrDenied
    ELSE IF sharedWithUserId \notin Users THEN ErrUserNotFound
    ELSE None

\* variant: the target user is not looked up
shareNote_check_noUser(row, ownerId, sharedWithUserId) ==
    IF ownerId = sharedWithUserId THEN ErrSelfShare
    ELSE IF row = NoNote THEN ErrNotFoundOrDenied
    ELSE None

shareNote_check(row, ownerId, sharedWithUserId) ==
    IF ownerId = sharedWithUserId THEN ErrSelfShare
    ELSE IF row = NoNote THEN ErrNotFoundOrDenied
    ELSE IF sharedWithUserId \notin Users THEN ErrUserNotFound
    ELSE None

shareNote_load(p, n, u, su, perm) ==
    /\ CanStart(p)
    /\ LET row == FindOwnedLiveNote(n, u)
           err == shareNote_check(row, u, su)
       IN IF err = None
          THEN /\ req' = [req EXCEPT ![p] = [IdleReq EXCEPT !.op = "shareNote",
                     !.pc = "findOrCreate", !.noteId = n, !.userId = u, !.sharedWith = su,
                     !.permission = perm, !.loaded = row, !.note = row]]
               /\ resp' = resp
          ELSE /\ req' = req
               /\ resp' = [Response("shareNote", n, u, 0, err, None, {})
                              EXCEPT !.sharedWith = su]
    /\ started' = started + 1
    /\ UNCHANGED <<outside, notes, versions, shares, attachments, rowLock, log>>

ShareRows(n, su) == {s \in shares : s.noteId = n /\ s.sharedWithUserId = su}

\* NoteShare.findOrCreate, its find: a row found is returned with created false
shareNote_findOrCreate(p) ==
    /\ req[p].op = "shareNote" /\ req[p].pc = "findOrCreate"
    /\ req' = [req EXCEPT ![p].pc =
           IF ShareRows(req[p].noteId, req[p].sharedWith) = {} THEN "create" ELSE "save"]
    /\ UNCHANGED <<outside, notes, versions, shares, attachments, rowLock, resp, started, log>>

\* variant: note_shares has no unique index on (noteId, sharedWithUserId)
shareNote_create_noIndex(p) ==
    /\ req[p].op = "shareNote" /\ req[p].pc = "create"
    /\ shares' = shares \cup {NoteShare(req[p].noteId, req[p].sharedWith,
                                  PermissionOrDefault(req[p].permission))}
    /\ req' = [req EXCEPT ![p] = AfterWrites(p)]
    /\ UNCHANGED <<outside, notes, versions, attachments, rowLock, resp, started, log>>

\* NoteShare.findOrCreate, its create: the unique index on (noteId,
\* sharedWithUserId) rejects a second row, and the row that is there is then
\* returned with created false
shareNote_create(p) ==
    /\ req[p].op = "shareNote" /\ req[p].pc = "create"
    /\ IF ShareRows(req[p].noteId, req[p].sharedWith) = {}
       THEN /\ shares' = shares \cup {NoteShare(req[p].noteId, req[p].sharedWith,
                                         PermissionOrDefault(req[p].permission))}
            /\ req' = [req EXCEPT ![p] = AfterWrites(p)]
       ELSE /\ shares' = shares
            /\ req' = [req EXCEPT ![p].pc = "save"]
    /\ UNCHANGED <<outside, notes, versions, attachments, rowLock, resp, started, log>>

\* variant: saving the share also touches the note and bumps its version
shareNote_save_touch(p) ==
    /\ req[p].op = "shareNote" /\ req[p].pc = "save"
    /\ shares' = (shares \ ShareRows(req[p].noteId, req[p].sharedWith))
                   \cup {NoteShare(s.noteId, s.sharedWithUserId,
                                   PermissionOrDefault(req[p].permission)) :
                           s \in ShareRows(req[p].noteId, req[p].sharedWith)}
    /\ notes' = [notes EXCEPT ![req[p].noteId].version = @ + 1]
    /\ req' = [req EXCEPT ![p] = AfterWrites(p)]
    /\ UNCHANGED <<outside, versions, attachments, rowLock, resp, started, log>>

shareNote_save(p) ==
    /\ req[p].op = "shareNote" /\ req[p].pc = "save"
    /\ shares' = (shares \ ShareRows(req[p].noteId, req[p].sharedWith))
                   \cup {NoteShare(s.noteId, s.sharedWithUserId,
                                   PermissionOrDefault(req[p].permission)) :
                           s \in ShareRows(req[p].noteId, req[p].sharedWith)}
    /\ req' = [req EXCEPT ![p] = AfterWrites(p)]
    /\ UNCHANGED <<outside, notes, versions, attachments, rowLock, resp, started, log>>

shareNote_invalidate(p) ==
    /\ req[p].op = "shareNote" /\ req[p].pc = "invalidate"
    /\ Invalidate(p, None, <<req[p].userId, req[p].sharedWith>>)
    /\ UNCHANGED <<NotInvalidated, notes, versions, shares, attachments, rowLock, started, log>>

\* ---- addAttachment -------------------------------------------------------
\* variant: the permission of the share is not looked at
FindWritableNote_anyShare(n, u) ==
    IF FindLiveNote(n).userId = u \/ (FindLiveNote(n) # NoNote /\ ShareRows(n, u) # {})
    THEN FindLiveNote(n) ELSE NoNote

\* Note.findOne with userId = u OR an edit share of u, deletedAt null
FindWritableNote(n, u) ==
    IF FindLiveNote(n).userId = u \/ (FindLiveNote(n) # NoNote /\ HasEditShare(n, u))
    THEN FindLiveNote(n) ELSE NoNote

addAttachment_load(p, n, u, f) ==
    /\ CanStart(p)
    /\ LET row == FindWritableNote(n, u)
       IN IF row = NoNote
          THEN Throw("addAttachment", n, u, 0, ErrNotFoundOrDenied, None)
          ELSE /\ req' = [req EXCEPT ![p] = [IdleReq EXCEPT !.op = "addAttachment",
                     !.pc = "create", !.noteId = n, !.userId = u, !.title = f,
                     !.loaded = row, !.note = row]]
               /\ resp' = resp
    /\ started' = started + 1
    /\ UNCHANGED <<outside, notes, versions, shares, attachments, rowLock, log>>

addAttachment_create(p) ==
    /\ req[p].op = "addAttachment" /\ req[p].pc = "create"
    /\ attachments' = Append(attachments, NoteAttachment(req[p].noteId, req[p].title))
    /\ req' = [req EXCEPT ![p] = AfterWrites(p)]
    /\ UNCHANGED <<outside, notes, versions, shares, rowLock, resp, started, log>>

addAttachment_invalidate(p) ==
    /\ req[p].op = "addAttachment" /\ req[p].pc = "invalidate"
    /\ Invalidate(p, None, <<req[p].userId>>)
    /\ UNCHANGED <<NotInvalidated, notes, versions, shares, attachments, rowLock, started, log>>

\* ---- reads ---------------------------------------------------------------
\* a read is one SELECT: it takes no request slot
CanRead == started < MaxRequests

\* the columns of the "shares" include when no row joins
NoShare == NoteShare(0, 0, "")

\* variant: the include is required (INNER JOIN)
LeftJoinShares_inner(n, on) == {s \in on : s.noteId = n}

\* notes LEFT OUTER JOIN note_shares: the share rows joined to note n, of the
\* rows that pass the ON clause
LeftJoinShares(n, on) ==
    IF {s \in on : s.noteId = n} = {} THEN {NoShare} ELSE {s \in on : s.noteId = n}

\* where: deletedAt null and (userId = u or shares.sharedWithUserId = u)
VisibleTo(n, u, on) ==
    /\ ~notes[n].deleted
    /\ \E s \in LeftJoinShares(n, on) : notes[n].userId = u \/ s.sharedWithUserId = u

getNoteById(n, u) ==
    IF n \in 1..Len(notes) /\ VisibleTo(n, u, shares) THEN notes[n] ELSE NoNote

getAllNotes(u) == {n \in 1..Len(notes) : VisibleTo(n, u, shares)}

\* title or content holds the keyword
Matches(row, kw) == row.title = kw \/ row.content = kw

searchNotesByKeywords(u, kw) ==
    {n \in 1..Len(notes) :
        /\ VisibleTo(n, u, {s \in shares : s.sharedWithUserId = u})
        /\ Matches(notes[n], kw)}

ReadResponse(op, n, u, result, rows) ==
    [Response(op, n, u, 0, result, None, {}) EXCEPT !.rows = rows]

getNoteById_call(n, u) ==
    /\ CanRead
    /\ resp' = IF getNoteById(n, u) = NoNote
               THEN ReadResponse("getNoteById", n, u, ErrAccessDenied, {})
               ELSE ReadResponse("getNoteById", n, u, Ok, {getNoteById(n, u).id})
    /\ started' = started + 1
    /\ UNCHANGED <<outside, notes, versions, shares, attachments, rowLock, req, log>>

getAllNotes_call(u) ==
    /\ CanRead
    /\ resp' = ReadResponse("getAllNotes", 0, u, Ok, getAllNotes(u))
    /\ started' = started + 1
    /\ UNCHANGED <<outside, notes, versions, shares, attachments, rowLock, req, log>>

searchNotesByKeywords_call(u, kw) ==
    /\ CanRead
    /\ resp' = ReadResponse("searchNotesByKeywords", 0, u, Ok, searchNotesByKeywords(u, kw))
    /\ started' = started + 1
    /\ UNCHANGED <<outside, notes, versions, shares, attachments, rowLock, req, log>>

Next ==
    \/ \E p \in Procs, u \in Users, in \in Inputs : createNote_note(p, u, in)
    \/ \E p \in Procs : createNote_version(p)
    \/ \E p \in Procs : createNote_invalidate(p)
    \/ \E p \in Procs : createNote_fail(p)
    \/ \E p \in Procs, n \in NoteIds, u \in Users, in \in Inputs, ev \in VersionArgs :
          updateNote_load(p, n, u, in, ev)
    \/ \E p \in Procs : updateNote_save(p)
    \/ \E p \in Procs : updateNote_createVersion(p)
    \/ \E p \in Procs : updateNote_commit(p)
    \/ \E p \in Procs : updateNote_invalidate(p)
    \/ \E p \in Procs : updateNote_rollback(p)
    \/ \E p \in Procs, n \in NoteIds, u \in Users, tv \in VersionArgs :
          revertToVersion_load(p, n, u, tv)
    \/ \E p \in Procs : revertToVersion_save(p)
    \/ \E p \in Procs : revertToVersion_createVersion(p)
    \/ \E p \in Procs : revertToVersion_commit(p)
    \/ \E p \in Procs : revertToVersion_invalidate(p)
    \/ \E p \in Procs : revertToVersion_rollback(p)
    \/ \E p \in Procs, n \in NoteIds, u \in Users : deleteNote_load(p, n, u)
    \/ \E p \in Procs : deleteNote_destroy(p)
    \/ \E p \in Procs : deleteNote_invalidate(p)
    \/ \E p \in Procs, n \in NoteIds, u \in Users, su \in UserIds, perm \in Permissions :
          shareNote_load(p, n, u, su, perm)
    \/ \E p \in Procs : shareNote_findOrCreate(p)
    \/ \E p \in Procs : shareNote_create(p)
    \/ \E p \in Procs : shareNote_save(p)
    \/ \E p \in Procs : shareNote_invalidate(p)
    \/ \E p \in Procs, n \in NoteIds, u \in Users, f \in Files : addAttachment_load(p, n, u, f)
    \/ \E p \in Procs : addAttachment_create(p)
    \/ \E p \in Procs : addAttachment_invalidate(p)
    \/ \E n \in NoteIds, u \in Users : getNoteById_call(n, u)
    \/ \E u \in Users : getAllNotes_call(u)
    \/ \E u \in Users, kw \in Keywords : searchNotesByKeywords_call(u, kw)

Spec == Init /\ [][Next]_vars

\* the awaits of updateNote and revertToVersion resolve or reject: a call
\* whose next statement can run does run; the UPDATE of save runs once the
\* row lock is free, which InnoDB grants in the order of the requests
TxProgress(p) ==
    /\ SF_vars(updateNote_save(p)) /\ SF_vars(revertToVersion_save(p))
    /\ WF_vars(updateNote_createVersion(p)) /\ WF_vars(revertToVersion_createVersion(p))
    /\ WF_vars(updateNote_commit(p)) /\ WF_vars(revertToVersion_commit(p))
    /\ WF_vars(updateNote_invalidate(p)) /\ WF_vars(revertToVersion_invalidate(p))

LiveSpec == Spec /\ \A p \in Procs : TxProgress(p)

\* the service after user 1 created note 1 and shared it with user 2 for
\* editing, both calls having returned
SharedInit ==
    /\ notes = <<Note(1, 1, "t1", "c1")>>
    /\ versions = <<NoteVersion(1, "t1", "c1", 1, 1)>>
    /\ shares = {NoteShare(1, 2, "edit")}
    /\ attachments = <<>>
    /\ rowLock = [n \in NoteIds |-> 0]
    /\ req = [p \in Procs |-> IdleReq]
    /\ resp = [Response("shareNote", 1, 1, 0, Ok, None, {1, 2}) EXCEPT !.sharedWith = 2]
    /\ started = 0
    /\ log = <<LogEntry("createNote", 0)>>
    /\ redisOpen = TRUE
    /\ redisUp = TRUE
    /\ cache = {}
    /\ epoch = 0
    /\ hreq = [c \in Clients |-> IdleHttp]
    /\ hresp = NoHttpResponse
    /\ hcount = 0
    /\ stored = [u \in Users |-> NoToken]
    /\ issued = {}
    /\ aresp = NoAuthResponse

\* the calls on a note that exists; the one user a share can name holds a
\* share already, so findOrCreate always finds the row and never creates one
SharedNext ==
    \/ \E p \in Procs, n \in NoteIds, u \in Users, in \in Inputs, ev \in VersionArgs :
          updateNote_load(p, n, u, in, ev)
    \/ \E p \in Procs : updateNote_save(p)
    \/ \E p \in Procs : updateNote_createVersion(p)
    \/ \E p \in Procs : updateNote_commit(p)
    \/ \E p \in Procs : updateNote_invalidate(p)
    \/ \E p \in Procs : updateNote_rollback(p)
    \/ \E p \in Procs, n \in NoteIds, u \in Users, tv \in VersionArgs :
          revertToVersion_load(p, n, u, tv)
    \/ \E p \in Procs : revertToVersion_save(p)
    \/ \E p \in Procs : revertToVersion_createVersion(p)
    \/ \E p \in Procs : revertToVersion_commit(p)
    \/ \E p \in Procs : revertToVersion_invalidate(p)
    \/ \E p \in Procs : revertToVersion_rollback(p)
    \/ \E p \in Procs, n \in NoteIds, u \in Users : deleteNote_load(p, n, u)
    \/ \E p \in Procs : deleteNote_destroy(p)
    \/ \E p \in Procs : deleteNote_invalidate(p)
    \/ \E p \in Procs, n \in NoteIds, u \in Users, su \in UserIds, perm \in Permissions :
          shareNote_load(p, n, u, su, perm)
    \/ \E p \in Procs : shareNote_findOrCreate(p)
    \/ \E p \in Procs : shareNote_save(p)
    \/ \E p \in Procs : shareNote_invalidate(p)
    \/ \E p \in Procs, n \in NoteIds, u \in Users, f \in Files : addAttachment_load(p, n, u, f)
    \/ \E p \in Procs : addAttachment_create(p)
    \/ \E p \in Procs : addAttachment_invalidate(p)
    \/ \E n \in NoteIds, u \in Users : getNoteById_call(n, u)
    \/ \E u \in Users : getAllNotes_call(u)
    \/ \E u \in Users, kw \in Keywords : searchNotesByKeywords_call(u, kw)

SharedSpec == SharedInit /\ [][SharedNext]_vars

\* ---- the Redis connection -------------------------------------------------
\* the server stops answering: connect and every command reject from now on
redis_down ==
    /\ redisUp
    /\ redisUp' = FALSE
    /\ UNCHANGED <<svc, redisOpen, http, auth>>

\* the server answers again
redis_up ==
    /\ ~redisUp
    /\ redisUp' = TRUE
    /\ UNCHANGED <<svc, redisOpen, http, auth>>

\* the client's socket is closed: isOpen is false until the next connect
redis_close ==
    /\ redisOpen
    /\ redisOpen' = FALSE
    /\ UNCHANGED <<svc, redisUp, http, auth>>

RedisNext == redis_down \/ redis_up \/ redis_close

\* the note service over a Redis that may fail at any moment
CacheNext == Next \/ RedisNext

CacheSpec == Init /\ [][CacheNext]_vars

\* ---- the note router -----------------------------------------------------
\* A path is the sequence of its segments; a route is a method, a path with
\* "/:id" for the parameter, whether cacheMiddleware(300) is in its chain, and
\* its controller method.
Route(method, path, cached, handler) ==
    [method |-> method, path |-> path, cached |-> cached, handler |-> handler]

NoRoute == Route("", <<>>, FALSE, "notFound")

\* the routes in the order the router registers them
Routes ==
    << Route("POST", <<>>, FALSE, "createNote"),
       Route("GET", <<>>, TRUE, "getAllNotes"),
       Route("GET", <<"/:id">>, TRUE, "getNoteById"),
       Route("PUT", <<"/:id">>, FALSE, "updateNote"),
       Route("DELETE", <<"/:id">>, FALSE, "deleteNote"),
       Route("GET", <<"/search">>, TRUE, "searchNotes"),
       Route("POST", <<"/:id", "/revert">>, FALSE, "revertToVersion"),
       Route("POST", <<"/:id", "/share">>, FALSE, "shareNote"),
       Route("POST", <<"/:id", "/attachments">>, FALSE, "addAttachment") >>

\* a parameter segment matches any segment, a literal one itself
MatchPath(pattern, path) ==
    /\ Len(pattern) = Len(path)
    /\ \A i \in 1..Len(path) : pattern[i] = "/:id" \/ pattern[i] = path[i]

\* the first registered route whose path and method match
Dispatch(method, path) ==
    LET hits == {i \in 1..Len(Routes) :
                    Routes[i].method = method /\ MatchPath(Routes[i].path, path)}
    IN  IF hits = {} THEN NoRoute
        ELSE Routes[CHOOSE i \in hits : \A j \in hits : i <= j]

\* the requests of the model: list, detail and search of the notes, an update
\* and a share of note 1
Request(method, path, query) == [method |-> method, path |-> path, query |-> query]
ListRequest == Request("GET", <<>>, <<>>)
DetailRequest == Request("GET", <<"/1">>, <<>>)
SearchRequest == Request("GET", <<"/search">>, <<"?keywords=t1">>)
UpdateRequest == Request("PUT", <<"/1">>, <<>>)
ShareRequest == Request("POST", <<"/1", "/share">>, <<>>)
GetRequests == {ListRequest, DetailRequest, SearchRequest}
HttpRequests == GetRequests \cup {UpdateRequest, ShareRequest}

\* parseInt(id) of a path segment; 0 stands for NaN
IdSegments == <<"/1", "/2", "/3">>
ParseInt(segment) ==
    IF \E n \in 1..Len(IdSegments) : IdSegments[n] = segment
    THEN CHOOSE n \in 1..Len(IdSegments) : IdSegments[n] = segment
    ELSE 0

\* ---- the controllers -----------------------------------------------------
ErrNoVersion == "Version number is required for optimistic locking"

\* the words and full stops of an error message
Words(message) ==
    CASE message = ErrNotFound -> <<"Note", "not", "found">>
      [] message = ErrDenied -> <<"Permission", "denied">>
      [] message = ErrConflict ->
             <<"Note", "has", "been", "modified", "by", "another", "user", ".",
               "Please", "refresh", "and", "try", "again", ".">>
      [] message = ErrStorage -> <<"storage", "failure">>
      [] OTHER -> <<message>>

\* String.prototype.includes, for a fragment made of whole words
Includes(text, fragment) ==
    \E i \in 1..Len(text) :
        /\ i + Len(fragment) - 1 <= Len(text)
        /\ SubSeq(text, i, i + Len(fragment) - 1) = fragment

\* what noteService.updateNote returns or throws, and the missing version
UpdateOutcomes == {Ok, ErrNoVersion, ErrNotFound, ErrDenied, ErrConflict, ErrStorage}

\* variant: the conflict is not told apart from the other errors
updateNote_status_noConflict(outcome) ==
    IF outcome = Ok THEN 200
    ELSE IF outcome = ErrNoVersion THEN 400
    ELSE IF outcome \in {ErrNotFound, ErrDenied, ErrConflict} THEN 404
    ELSE 500

\* the status of noteController.updateNote
updateNote_status(outcome) ==
    IF outcome = Ok THEN 200
    ELSE IF outcome = ErrNoVersion THEN 400
    ELSE IF Includes(Words(outcome), <<"modified", "by", "another", "user">>) THEN 409
    ELSE IF outcome = ErrNotFound \/ outcome = ErrDenied THEN 404
    ELSE 500

\* what noteService.shareNote returns or throws, for the caller u and the
\* target su: the self-share check comes first
ShareOutcomes(u, su) ==
    IF u = su THEN {ErrSelfShare} ELSE {Ok, ErrNotFoundOrDenied, ErrUserNotFound, ErrStorage}

\* the status of noteController.shareNote
shareNote_status(outcome) ==
    IF outcome = Ok THEN 200
    ELSE IF outcome \in {ErrNotFoundOrDenied, ErrUserNotFound, ErrSelfShare} THEN 400
    ELSE 500

\* what the service call of a GET handler returns or throws; no note has the
\* id NaN
GetOutcomes(handler, path) ==
    IF handler = "getNoteById"
    THEN IF ParseInt(path[1]) = 0 THEN {ErrAccessDenied, ErrStorage}
         ELSE {Ok, ErrAccessDenied, ErrStorage}
    ELSE {Ok, ErrStorage}

\* the status of getAllNotes, getNoteById and searchNotes
get_status(handler, outcome) ==
    IF outcome = Ok THEN 200
    ELSE IF handler = "getNoteById" /\ outcome = ErrAccessDenied THEN 404
    ELSE 500

\* ---- a request through the router ----------------------------------------
CacheHealthy == redisOpen /\ redisUp

\* the entries stored under a key
Cached(key) == {e \in cache : e.key = key}

\* redisClient.setEx(cacheKey, duration, JSON.stringify(data)), not awaited:
\* a rejection is lost
SetEx(key, body) ==
    IF CacheHealthy THEN (cache \ Cached(key)) \cup {CacheEntry(key, body)} ELSE cache

KeyOf(r) == CacheKey(OriginalUrl(r.path, r.query), r.user)

\* the response leaves the server: the request is over
Respond(c, r, status, body, fromCache) ==
    /\ hreq' = [hreq EXCEPT ![c] = IdleHttp]
    /\ hresp' = HttpResponse(r, status, body, fromCache)

\* the request reaches the router as user u (authenticate has set req.user);
\* through says whether cacheMiddleware is in the chain
Arrive(c, r, u, su, through) ==
    /\ hreq[c].pc = "idle"
    /\ hcount < MaxHttpRequests
    /\ hcount' = hcount + 1
    /\ hreq' = [hreq EXCEPT ![c] =
           [IdleHttp EXCEPT !.pc = IF through THEN "cache" ELSE "handler",
                            !.method = r.method, !.path = r.path, !.query = r.query,
                            !.user = u, !.handler = Dispatch(r.method, r.path).handler,
                            !.pending = IF r = ShareRequest THEN <<u, su>> ELSE <<u>>]]
    /\ UNCHANGED <<svc, redis, cache, epoch, hresp, auth>>

http_request(c, r, u, su) == Arrive(c, r, u, su, Dispatch(r.method, r.path).cached)

\* cacheMiddleware(300) called for a request that is not a GET
cacheMiddleware_call(c, r, u, su) == r.method # "GET" /\ Arrive(c, r, u, su, TRUE)

\* next(): the middleware hands the request to the handler
CallNext(c, store) ==
    hreq' = [hreq EXCEPT ![c].pc = "handler", ![c].nextCalls = @ + 1, ![c].store = store]

\* variant: the stored body is sent and next is called as well
CacheGet_noReturn(c, open) ==
    IF ~(open /\ redisUp)
    THEN CallNext(c, FALSE) /\ UNCHANGED hresp
    ELSE IF Cached(KeyOf(hreq[c])) # {}
         THEN LET e == CHOOSE e \in Cached(KeyOf(hreq[c])) : TRUE
              IN  Respond(c, [hreq[c] EXCEPT !.jsonCalls = @ + 1, !.nextCalls = @ + 1],
                          200, e.body, TRUE)
         ELSE CallNext(c, TRUE) /\ UNCHANGED hresp

\* redisClient.get(cacheKey) and what follows it: a stored body is the
\* response, a miss overrides res.json and calls next, an error calls next
CacheGet(c, open) ==
    IF ~(open /\ redisUp)
    THEN CallNext(c, FALSE) /\ UNCHANGED hresp
    ELSE IF Cached(KeyOf(hreq[c])) # {}
         THEN LET e == CHOOSE e \in Cached(KeyOf(hreq[c])) : TRUE
              IN  Respond(c, [hreq[c] EXCEPT !.jsonCalls = @ + 1], 200, e.body, TRUE)
         ELSE CallNext(c, TRUE) /\ UNCHANGED hresp

\* the middleware up to its first await: not a GET, next at once; the client
\* not open, connect; otherwise the get
cacheMiddleware_enter(c) ==
    /\ hreq[c].pc = "cache"
    /\ IF hreq[c].method # "GET"
       THEN CallNext(c, FALSE) /\ UNCHANGED <<redisOpen, hresp>>
       ELSE IF ~redisOpen
            THEN IF redisUp
                 THEN /\ redisOpen' = TRUE
                      /\ hreq' = [hreq EXCEPT ![c].pc = "get"]
                      /\ UNCHANGED hresp
                 ELSE CallNext(c, FALSE) /\ UNCHANGED <<redisOpen, hresp>>
            ELSE CacheGet(c, TRUE) /\ UNCHANGED redisOpen
    /\ UNCHANGED <<svc, redisUp, cache, epoch, hcount, auth>>

\* the get after the connect
cacheMiddleware_get(c) ==
    /\ hreq[c].pc = "get"
    /\ CacheGet(c, redisOpen)
    /\ UNCHANGED <<svc, redis, cache, epoch, hcount, auth>>

GetHandlers == {"getAllNotes", "getNoteById", "searchNotes"}

\* getAllNotes, getNoteById, searchNotes: the service call and res.json, which
\* stores the body first when the middleware has overridden it
handler_get(c, outcome) ==
    /\ hreq[c].pc = "handler" /\ hreq[c].handler \in GetHandlers
    /\ outcome \in GetOutcomes(hreq[c].handler, hreq[c].path)
    /\ LET body == Body(hreq[c].user, hreq[c].handler, epoch, outcome)
       IN  /\ cache' = IF hreq[c].store THEN SetEx(KeyOf(hreq[c]), body) ELSE cache
           /\ Respond(c, [hreq[c] EXCEPT !.jsonCalls = @ + 1, !.outcome = outcome],
                      get_status(hreq[c].handler, outcome), body, FALSE)
    /\ UNCHANGED <<svc, redis, epoch, hcount, auth>>

MutationStatus(handler, outcome) ==
    IF handler = "updateNote" THEN updateNote_status(outcome) ELSE shareNote_status(outcome)

\* updateNote, shareNote: the service call up to its last write; an error is
\* answered at once, a success goes on to the cache signals
handler_write(c, outcome) ==
    /\ hreq[c].pc = "handler" /\ hreq[c].handler \in {"updateNote", "shareNote"}
    /\ outcome \in IF hreq[c].handler = "updateNote" THEN UpdateOutcomes
                  ELSE ShareOutcomes(hreq[c].pending[1], hreq[c].pending[2])
    /\ IF outcome = Ok
       THEN /\ epoch < MaxEpoch
            /\ epoch' = epoch + 1
            /\ hreq' = [hreq EXCEPT ![c].pc = "invalidate", ![c].outcome = Ok]
            /\ UNCHANGED hresp
       ELSE /\ Respond(c, [hreq[c] EXCEPT !.jsonCalls = @ + 1, !.outcome = outcome],
                       MutationStatus(hreq[c].handler, outcome),
                       Body(hreq[c].user, hreq[c].handler, epoch, outcome), FALSE)
            /\ UNCHANGED epoch
    /\ UNCHANGED <<svc, redis, cache, hcount, auth>>

\* one awaited invalidateCache of the service call; after the last one the
\* service returns and the controller answers
handler_invalidate(c) ==
    /\ hreq[c].pc = "invalidate"
    /\ LET r == invalidateCache(cache, redisOpen, redisUp,
                                InvalidationPattern(Head(hreq[c].pending)))
           rest == Tail(hreq[c].pending)
       IN  /\ cache' = r.cache
           /\ redisOpen' = r.open
           /\ IF r.threw \/ rest = <<>>
              THEN LET outcome == IF r.threw THEN ErrStorage ELSE Ok
                   IN  Respond(c, [hreq[c] EXCEPT !.jsonCalls = @ + 1, !.outcome = outcome,
                                                  !.pending = rest],
                               MutationStatus(hreq[c].handler, outcome),
                               Body(hreq[c].user, hreq[c].handler, epoch, outcome), FALSE)
              ELSE hreq' = [hreq EXCEPT ![c].pending = rest] /\ UNCHANGED hresp
    /\ UNCHANGED <<svc, redisUp, epoch, hcount, auth>>

\* the note routes as the server mounts them
HttpNext ==
    \/ \E c \in Clients, r \in HttpRequests, u \in Users, su \in Users :
          http_request(c, r, u, su)
    \/ \E c \in Clients : cacheMiddleware_enter(c)
    \/ \E c \in Clients : cacheMiddleware_get(c)
    \/ \E c \in Clients, outcome \in {Ok, ErrAccessDenied, ErrStorage} : handler_get(c, outcome)
    \/ \E c \in Clients, outcome \in UpdateOutcomes \cup ShareOutcomes(1, 1) \cup ShareOutcomes(1, 2) :
          handler_write(c, outcome)
    \/ \E c \in Clients : handler_invalidate(c)
    \/ RedisNext

HttpSpec == Init /\ [][HttpNext]_vars

\* ---- a cached GET next to the calls of the service -------------------------
\* what the service call of a GET handler finds in the store
ServiceRead(handler, path, u) ==
    IF handler = "getNoteById" /\ getNoteById(ParseInt(path[1]), u) = NoNote
    THEN ErrAccessDenied ELSE Ok

get_request(c, r, u) ==
    r.method = "GET" /\ hcount < MaxFillGets /\ http_request(c, r, u, u)

\* an updateNote called while the GET requests run
update_request(p, n, u, in, ev) ==
    started < MaxFillUpdates /\ updateNote_load(p, n, u, in, ev)

\* the handler up to the end of its await: the service has read the store, or
\* the read was rejected
handler_read(c, outcome) ==
    /\ hreq[c].pc = "handler" /\ hreq[c].handler \in GetHandlers
    /\ outcome \in {ServiceRead(hreq[c].handler, hreq[c].path, hreq[c].user), ErrStorage}
    /\ hreq' = [hreq EXCEPT ![c].pc = "json", ![c].outcome = outcome,
                            ![c].read = Len(versions)]
    /\ UNCHANGED <<svc, redis, cache, epoch, hresp, hcount, auth>>

\* the handler after its await: res.json with what was read, which stores the
\* body first when the middleware has overridden it
handler_json(c) ==
    /\ hreq[c].pc = "json"
    /\ LET body == Body(hreq[c].user, hreq[c].handler, hreq[c].read, hreq[c].outcome)
       IN  /\ cache' = IF hreq[c].store THEN SetEx(KeyOf(hreq[c]), body) ELSE cache
           /\ Respond(c, [hreq[c] EXCEPT !.jsonCalls = @ + 1],
                      get_status(hreq[c].handler, hreq[c].outcome), body, FALSE)
    /\ UNCHANGED <<svc, redis, epoch, hcount, auth>>

\* cached GET requests while updateNote calls run on a shared note
FillNext ==
    \/ \E c \in Clients, r \in GetRequests, u \in Users : get_request(c, r, u)
    \/ \E c \in Clients : cacheMiddleware_enter(c)
    \/ \E c \in Clients, outcome \in {Ok, ErrAccessDenied, ErrStorage} : handler_read(c, outcome)
    \/ \E c \in Clients : handler_json(c)
    \/ \E p \in Procs, n \in NoteIds, u \in Users, in \in Inputs, ev \in VersionArgs :
          update_request(p, n, u, in, ev)
    \/ \E p \in Procs : updateNote_save(p)
    \/ \E p \in Procs : updateNote_createVersion(p)
    \/ \E p \in Procs : updateNote_commit(p)
    \/ \E p \in Procs : updateNote_invalidate(p)
    \/ \E p \in Procs : updateNote_rollback(p)

FillSpec == SharedInit /\ [][FillNext]_vars

\* cacheMiddleware in front of any request, as the middleware's tests call it
MiddlewareNext ==
    \/ \E c \in Clients, r \in HttpRequests, u \in Users, su \in Users :
          cacheMiddleware_call(c, r, u, su)
    \/ HttpNext

MiddlewareSpec == Init /\ [][MiddlewareNext]_vars

\* ---- the auth routes ------------------------------------------------------
CanAuth == aresp.seq < MaxAuthRequests

\* a user of the auth routes exists once register has answered for it
Registered(u) == \E t \in issued : t.user = u

\* generateAccessToken and generateRefreshToken, the setEx of the refresh
\* token when the client is open, and the answer: the shared end of register
\* and login
SignIn(op, u, status) ==
    LET token == Token(u, aresp.seq + 1)
    IN  IF redisOpen /\ ~redisUp
        THEN /\ aresp' = AuthResponse(aresp.seq + 1, op, NoToken, 500, FALSE)
             /\ UNCHANGED <<stored, issued>>
        ELSE /\ stored' = IF redisOpen THEN [stored EXCEPT ![u] = token] ELSE stored
             /\ issued' = issued \cup {token}
             /\ aresp' = AuthResponse(aresp.seq + 1, op, token, status, TRUE)

register(u) ==
    /\ CanAuth
    /\ ~Registered(u)
    /\ SignIn("register", u, 201)
    /\ UNCHANGED <<svc, redis, http>>

\* login with the credentials of user u
login(u) ==
    /\ CanAuth
    /\ Registered(u)
    /\ SignIn("login", u, 200)
    /\ UNCHANGED <<svc, redis, http>>

\* jwt.verify: the token is one that generateRefreshToken has signed
ValidlySigned(token) == token \in issued

\* the tokens of the model, and those a client may present: each signed one,
\* and for each user one that the server has not signed
Tokens == {Token(u, k) : u \in Users, k \in 0..MaxAuthRequests}
Presentable == issued \cup {Token(u, 0) : u \in Users}

\* the status of refreshToken for a presented token
refreshToken_status(token, open, up) ==
    IF ~ValidlySigned(token) THEN 401
    ELSE IF open /\ ~up THEN 500
    ELSE IF open /\ stored[token.user] # token THEN 401
    ELSE 200

refreshToken(token) ==
    /\ CanAuth
    /\ token \in Presentable
    /\ aresp' = AuthResponse(aresp.seq + 1, "refreshToken", token,
                             refreshToken_status(token, redisOpen, redisUp),
                             refreshToken_status(token, redisOpen, redisUp) = 200)
    /\ UNCHANGED <<svc, redis, http, stored, issued>>

AuthNext ==
    \/ \E u \in Users : register(u)
    \/ \E u \in Users : login(u)
    \/ \E token \in Tokens : refreshToken(token)
    \/ RedisNext

AuthSpec == Init /\ [][AuthNext]_vars

\* ---- vocabulary of the properties ----------------------------------------
IsLive(n) == FindLiveNote(n) # NoNote
IsOwner(n, u) == IsLive(n) /\ notes[n].userId = u
CanEdit(n, u) == IsLive(n) /\ (notes[n].userId = u \/ HasEditShare(n, u))
RowsOf(n) == {i \in 1..Len(versions) : versions[i].noteId = n}
Mutations == {"updateNote", "revertToVersion"}
\* both writes of the note's createNote are done
Created(n) == \E i \in RowsOf(n) : log[i].op = "createNote"
\* the note's createNote is between its two writes
Creating(n) == \E p \in Procs : req[p].op = "createNote" /\ req[p].pc = "version" /\ req[p].noteId = n

\* a call of op throws at its checks, before its first write
ThrowStep(op) == started' = started + 1 /\ req' = req /\ resp'.op = op
\* a call of op passes its checks in slot p
StartStep(p, op) == req[p].pc = "done" /\ req'[p].pc # "done" /\ req'[p].op = op
\* the transaction of slot p commits
CommitStep(p, op) == req[p].op = op /\ req[p].pc = "commit" /\ req'[p].pc = "invalidate"
\* the call of slot p returns or throws after at least one await
ReturnStep(p, op) == req[p].op = op /\ req[p].pc # "done" /\ req'[p].pc = "done"
StoreUnchanged == UNCHANGED <<notes, versions, shares, attachments>>

\* ---- C1 --------------------------------------------------------------------
\* C1: of the updateNote calls that loaded the same (fully created) note at the
\* same version V, and so supplied expectedVersion = V, at most one commits; two
\* commits from the same loaded version never both reach the version store.
C1_ExactlyOneRacerCommits ==
    \A i, j \in 1..Len(log) :
        (i # j /\ log[i].op = "updateNote" /\ log[j].op = "updateNote"
               /\ versions[i].noteId = versions[j].noteId
               /\ Created(versions[i].noteId))
            => log[i].from # log[j].from

\* ---- C2 --------------------------------------------------------------------
\* C2: an updateNote by the owner or an editor of a live note passes its checks
\* exactly when expectedVersion equals the note's current version, otherwise it
\* throws the version-conflict error and the store is unchanged; when it commits
\* with the note still as loaded, the note carries the supplied title and
\* content and version V+1; a call that committed returns success.
C2_Step ==
    /\ ThrowStep("updateNote") =>
          /\ StoreUnchanged
          /\ CanEdit(resp'.noteId, resp'.userId) =>
                /\ resp'.result = ErrConflict
                /\ resp'.ver # notes[resp'.noteId].version
          /\ resp'.result = ErrConflict => CanEdit(resp'.noteId, resp'.userId)
    /\ \A p \in Procs :
          /\ StartStep(p, "updateNote") =>
                /\ CanEdit(req'[p].noteId, req'[p].userId)
                /\ req'[p].ver = notes[req'[p].noteId].version
          /\ (CommitStep(p, "updateNote") /\ notes[req[p].noteId] = req[p].loaded) =>
                notes'[req[p].noteId] =
                    [notes[req[p].noteId] EXCEPT !.title = req[p].title,
                        !.content = req[p].content, !.version = req[p].ver + 1]
          /\ (ReturnStep(p, "updateNote") /\ req[p].pc = "invalidate") =>
                resp'.result = Ok

C2_SequentialOptimisticLock == [][C2_Step]_vars

\* the request was committed from version V and its resubmission got the conflict
C2_Witness ==
    /\ resp.op = "updateNote" /\ resp.result = ErrConflict
    /\ IsLive(resp.noteId)
    /\ notes[resp.noteId].version = resp.ver + 1
    /\ \E i \in RowsOf(resp.noteId) :
          /\ log[i] = LogEntry("updateNote", resp.ver)
          /\ versions[i].title = notes[resp.noteId].title
          /\ versions[i].content = notes[resp.noteId].content

\* ---- C3 --------------------------------------------------------------------
\* C3: for every note the version numbers stored in its NoteVersion rows are
\* exactly 1..note.version, each stored once (a note whose createNote is still
\* between its two writes is not looked at).
C3_GapFreeUnique ==
    \A n \in 1..Len(notes) : ~Creating(n) =>
        /\ \A k \in 1..notes[n].version : Cardinality(VersionRows(n, k)) = 1
        /\ \A i \in RowsOf(n) : versions[i].version \in 1..notes[n].version

\* ---- C4 --------------------------------------------------------------------
\* C4: for every fully created note, version = 1 + the number of updates and
\* reverts of that note that committed.
C4_VersionCountsSuccesses ==
    \A n \in 1..Len(notes) : Created(n) =>
        notes[n].version = 1 + Cardinality({i \in RowsOf(n) : log[i].op \in Mutations})

\* ---- C5 --------------------------------------------------------------------
\* C5: for every fully created note, a NoteVersion row with the highest version
\* number of that note has the version, title and content of the Note row.
C5_HeadMirrorsNote ==
    \A n \in 1..Len(notes) : \A i \in RowsOf(n) :
        (Created(n) /\ \A j \in RowsOf(n) : versions[j].version <= versions[i].version)
            => /\ versions[i].version = notes[n].version
               /\ versions[i].title = notes[n].title
               /\ versions[i].content = notes[n].content

\* ---- C6 --------------------------------------------------------------------
\* C6: no step changes or removes an existing NoteVersion row.
C6_Step ==
    /\ Len(versions') >= Len(versions)
    /\ \A i \in 1..Len(versions) : versions'[i] = versions[i]

C6_AppendOnly == [][C6_Step]_vars

\* a revert and a delete have acted on a note whose first rows are still there
C6_Witness ==
    \E n \in 1..Len(notes) :
        /\ notes[n].deleted
        /\ \E i \in RowsOf(n) : log[i].op = "revertToVersion"
        /\ \E i \in RowsOf(n) : log[i].op = "createNote"

\* ---- C7 --------------------------------------------------------------------
\* C7: an updateNote that ends with not-found, permission-denied or
\* version-conflict leaves notes, versions, shares and attachments as they
\* were, holds no row lock, has its transaction rolled back and issues no
\* cache invalidation.
C7_Step ==
    (/\ resp'.op = "updateNote"
     /\ resp'.result \in {ErrNotFound, ErrDenied, ErrConflict}
     /\ (ThrowStep("updateNote") \/ \E p \in Procs : ReturnStep(p, "updateNote")))
      => /\ StoreUnchanged
         /\ rowLock' = rowLock
         /\ resp'.inv = {}
         /\ resp'.tx = "rolledback"

C7_FailedUpdateIsNoOp == [][C7_Step]_vars

\* an update was refused for lack of permission on a live note with history
C7_Witness ==
    /\ resp.op = "updateNote" /\ resp.result = ErrDenied
    /\ IsLive(resp.noteId)
    /\ RowsOf(resp.noteId) # {}
    /\ resp.inv = {}

\* ---- C8 --------------------------------------------------------------------
\* C8: the Note write and the NoteVersion append of an update or revert become
\* visible in one step or not at all: a step that changes a note's title,
\* content or version appends a row numbered with the note's new version; a
\* step that appends a row of an update or revert leaves the note at that
\* version; a rolled back transaction leaves notes and versions unchanged.
NoteFields(row) == <<row.title, row.content, row.version>>

C8_Step ==
    /\ \A n \in 1..Len(notes) :
          /\ NoteFields(notes'[n]) # NoteFields(notes[n]) =>
                /\ Len(versions') = Len(versions) + 1
                /\ versions'[Len(versions')].noteId = n
                /\ versions'[Len(versions')].version = notes'[n].version
                /\ log'[Len(log')].op \in Mutations
          /\ (/\ Len(versions') = Len(versions) + 1
              /\ versions'[Len(versions')].noteId = n
              /\ log'[Len(log')].op \in Mutations) =>
                notes'[n].version = versions'[Len(versions')].version
    /\ \A p \in Procs :
          (\E op \in Mutations : ReturnStep(p, op) /\ resp'.tx = "rolledback") =>
              /\ notes' = notes
              /\ versions' = versions

C8_AtomicPair == [][C8_Step]_vars

\* both writes of an update or revert are pending and neither is visible
C8_Witness ==
    \E p \in Procs :
        /\ req[p].op \in Mutations /\ req[p].pc = "commit"
        /\ notes[req[p].noteId].version = req[p].loaded.version
        /\ NoteFields(notes[req[p].noteId]) # NoteFields(req[p].note)
        /\ VersionRows(req[p].noteId, req[p].note.version) = {}

\* ---- C9 --------------------------------------------------------------------
\* C9: a committing revertToVersion of a note loaded at version V with target T
\* was called by the note's owner, appends exactly one row (note, V+1, title and
\* content of a stored row T of that note, changedBy = caller), leaves every
\* existing row unchanged, and, the note being still as loaded, leaves the note
\* at version V+1 with that title and content.
C9_Step ==
    \A p \in Procs :
        CommitStep(p, "revertToVersion") =>
            LET n == req[p].noteId
                V == req[p].loaded.version
            IN /\ notes[n].userId = req[p].userId
               /\ \E i \in VersionRows(n, req[p].ver) : versions[i] = req[p].target
               /\ versions' = Append(versions,
                      NoteVersion(n, req[p].target.title, req[p].target.content, V + 1,
                                  req[p].userId))
               /\ notes[n] = req[p].loaded =>
                      notes'[n] = [notes[n] EXCEPT !.title = req[p].target.title,
                                      !.content = req[p].target.content,
                                      !.version = V + 1]

C9_RevertAppends == [][C9_Step]_vars

\* a note at version 2 was reverted to version 1: version 3 with row 1's content
C9_Witness ==
    \E n \in 1..Len(notes) : \E i, j, k \in RowsOf(n) :
        /\ versions[i].version = 1 /\ versions[j].version = 2 /\ versions[k].version = 3
        /\ log[k] = LogEntry("revertToVersion", 2)
        /\ NoteFields(versions[j]) # <<versions[i].title, versions[i].content, 2>>
        /\ NoteFields(versions[k]) = <<versions[i].title, versions[i].content, 3>>
        /\ NoteFields(notes[n]) = NoteFields(versions[k])

\* ---- C10 -------------------------------------------------------------------
\* C10: a revertToVersion by the owner of a live note naming a target version of
\* which the note has no row throws the version-not-found error with the
\* transaction rolled back and the store unchanged, and never starts writing.
C10_Step ==
    /\ ThrowStep("revertToVersion") =>
          /\ StoreUnchanged
          /\ resp'.tx = "rolledback"
          /\ (IsOwner(resp'.noteId, resp'.userId)
                 /\ VersionRows(resp'.noteId, resp'.ver) = {})
               <=> resp'.result = ErrVersionNotFound
    /\ \A p \in Procs :
          StartStep(p, "revertToVersion") =>
              VersionRows(req'[p].noteId, req'[p].ver) # {}

C10_MissingTargetFails == [][C10_Step]_vars

\* a revert of a live note to a version above its current one was refused
C10_Witness ==
    /\ resp.op = "revertToVersion" /\ resp.result = ErrVersionNotFound
    /\ IsLive(resp.noteId)
    /\ RowsOf(resp.noteId) # {}
    /\ resp.ver > notes[resp.noteId].version

\* ---- C11 -------------------------------------------------------------------
\* C11: for every fully created note and every version number k >= 2, at most
\* one committed mutation (updateNote or revertToVersion, by any caller) has
\* produced version k.
C11_FirstCommitterWins ==
    \A n \in 1..Len(notes) : Created(n) =>
        \A k \in 2..(MaxRequests + 1) :
            Cardinality({i \in RowsOf(n) :
                            log[i].op \in Mutations /\ versions[i].version = k}) <= 1

\* ---- C12 -------------------------------------------------------------------
WriteOps == {"updateNote", "revertToVersion", "shareNote", "addAttachment", "deleteNote"}
DenialErrors == {ErrNotFound, ErrDenied, ErrNotFoundOrDenied}
\* u is neither the owner of the note row n nor holds an edit share on it
NotWriter(n, u) == n \in 1..Len(notes) /\ notes[n].userId # u /\ ~HasEditShare(n, u)

\* no write call of a non-writer passes its checks; it throws, with the store
\* unchanged, one of the errors that errorsOf allows for the response
C12_StepWith(errorsOf(_)) ==
    /\ \A p \in Procs, op \in WriteOps :
          StartStep(p, op) => ~NotWriter(req'[p].noteId, req'[p].userId)
    /\ \A op \in WriteOps :
          (ThrowStep(op) /\ NotWriter(resp'.noteId, resp'.userId)) =>
              /\ StoreUnchanged
              /\ resp'.result \in errorsOf(resp')

C12_DenialOnly(r) == DenialErrors

C12_DenialOrSelfShare(r) ==
    IF r.op = "shareNote" /\ r.sharedWith = r.userId THEN {ErrSelfShare} ELSE DenialErrors

\* C12 as stated: every write call on a note by a user who is neither its
\* owner nor an editor fails with a permission-denied or not-found error and
\* changes nothing.
C12_NonWriterDenied == [][C12_StepWith(C12_DenialOnly)]_vars

\* C12 amended: every write call on a note by a user who is neither its owner
\* nor an editor fails and changes nothing; the error is a permission-denied or
\* not-found error, except that shareNote naming the caller itself as the
\* target fails with the self-share error.
C12_NonWriterFails == [][C12_StepWith(C12_DenialOrSelfShare)]_vars

\* a Viewer of a live note asked to share it with itself
C12_Witness ==
    /\ resp.op = "shareNote" /\ resp.result = ErrSelfShare
    /\ IsLive(resp.noteId)
    /\ NotWriter(resp.noteId, resp.userId)
    /\ NoteShare(resp.noteId, resp.userId, "read") \in shares

\* ---- C13 -------------------------------------------------------------------
OwnerOps == {"revertToVersion", "shareNote", "deleteNote"}
\* u is not the owner of the live note n and holds an edit share on it
IsEditor(n, u) == IsLive(n) /\ notes[n].userId # u /\ HasEditShare(n, u)

\* C13: an updateNote by an Editor of a live note is refused only for a version
\* mismatch and an addAttachment by an Editor is never refused; revertToVersion,
\* shareNote and deleteNote pass their checks for the owner only, and when
\* called by an Editor they fail and leave notes, versions, shares and
\* attachments unchanged; the deletion mark and the shares of a note change in
\* steps of its owner's calls only.
C13_Step ==
    /\ (ThrowStep("updateNote") /\ IsEditor(resp'.noteId, resp'.userId)) =>
          /\ resp'.result = ErrConflict
          /\ resp'.ver # notes[resp'.noteId].version
    /\ ThrowStep("addAttachment") => ~IsEditor(resp'.noteId, resp'.userId)
    /\ \A op \in OwnerOps :
          /\ \A p \in Procs : StartStep(p, op) => IsOwner(req'[p].noteId, req'[p].userId)
          /\ (ThrowStep(op) /\ IsEditor(resp'.noteId, resp'.userId)) =>
                /\ StoreUnchanged
                /\ resp'.result \in {ErrNotFoundOrDenied, ErrSelfShare}
    /\ \A n \in 1..Len(notes) :
          notes'[n].deleted # notes[n].deleted =>
              \E p \in Procs : /\ req[p].op = "deleteNote" /\ req[p].noteId = n
                               /\ req[p].userId = notes[n].userId
    /\ shares' # shares =>
          \E p \in Procs : /\ req[p].op = "shareNote"
                           /\ req[p].userId = notes[req[p].noteId].userId

C13_EditorRights == [][C13_Step]_vars

\* an update by an Editor committed and returned success
C13_Witness ==
    /\ resp.op = "updateNote" /\ resp.result = Ok
    /\ notes[resp.noteId].userId # resp.userId
    /\ HasEditShare(resp.noteId, resp.userId)
    /\ \E i \in RowsOf(resp.noteId) :
          /\ log[i] = LogEntry("updateNote", resp.ver)
          /\ versions[i].changedBy = resp.userId
          /\ versions[i].version = notes[resp.noteId].version

\* ---- C14 -------------------------------------------------------------------
\* the note is live and u is its owner or holds a share of either permission
MayRead(n, u) == IsLive(n) /\ (notes[n].userId = u \/ ShareRows(n, u) # {})
\* a read of kind op is answered
ReadStep(op) == started' = started + 1 /\ req' = req /\ resp'.op = op

\* C14: getNoteById(noteId, userId) returns the note exactly when the note is
\* live and userId is its owner or holds a share on it of either permission,
\* and otherwise fails with 'Note not found or access denied'; getAllNotes
\* returns exactly the live notes for which that condition holds; neither
\* changes the store.
C14_Step ==
    /\ ReadStep("getNoteById") =>
          /\ StoreUnchanged
          /\ IF MayRead(resp'.noteId, resp'.userId)
             THEN resp'.result = Ok /\ resp'.rows = {resp'.noteId}
             ELSE resp'.result = ErrAccessDenied /\ resp'.rows = {}
    /\ ReadStep("getAllNotes") =>
          /\ StoreUnchanged
          /\ resp'.result = Ok
          /\ resp'.rows = {n \in NoteIds : MayRead(n, resp'.userId)}

C14_ReadAccess == [][C14_Step]_vars

\* a Viewer read a note it does not own
C14_Witness ==
    /\ resp.op = "getNoteById" /\ resp.result = Ok /\ resp.rows = {resp.noteId}
    /\ IsLive(resp.noteId)
    /\ notes[resp.noteId].userId # resp.userId
    /\ NoteShare(resp.noteId, resp.userId, "read") \in shares

\* ---- C15 -------------------------------------------------------------------
ProbeOps == WriteOps \cup {"getNoteById"}
\* the note row n exists and u has no relation to it
NoAccess(n, u) == n \in 1..Len(notes) /\ notes[n].userId # u /\ ShareRows(n, u) = {}

\* the outcome of the call answered by r had its note id been that of no note
OutcomeOnMissing(r) ==
    CASE r.op = "updateNote" -> updateNote_check(NoNote, FALSE, r.userId, r.ver)
      [] r.op = "shareNote" -> shareNote_check(NoNote, r.userId, r.sharedWith)
      [] r.op = "getNoteById" -> ErrAccessDenied
      [] OTHER -> ErrNotFoundOrDenied

\* C15: an operation on an existing note by a caller with no access to it is
\* answered with the same error as the same call on the id of no note.
C15_Step ==
    \A op \in ProbeOps :
        (ThrowStep(op) /\ NoAccess(resp'.noteId, resp'.userId)) =>
            resp'.result = OutcomeOnMissing(resp')

C15_NoExistenceProbing == [][C15_Step]_vars

\* ---- C16 -------------------------------------------------------------------
\* the call answered by r was made by a non-owner, on a missing or deleted
\* note, or named a target that is no user
ShareRefused(r) == ~IsOwner(r.noteId, r.userId) \/ r.sharedWith \notin Users

\* a shareNote call passes its checks only for the owner of a live note and an
\* existing target; a refused call throws the error errorOf gives, leaves the
\* shares unchanged and invalidates nothing; the shares change only in steps
\* of calls that passed, and only a call that returns success invalidates
C16_StepWith(errorOf(_)) ==
    /\ \A p \in Procs :
          /\ StartStep(p, "shareNote") =>
                /\ IsOwner(req'[p].noteId, req'[p].userId)
                /\ req'[p].sharedWith \in Users
          /\ (ReturnStep(p, "shareNote") /\ resp'.inv # {}) => resp'.result = Ok
    /\ (ThrowStep("shareNote") /\ ShareRefused(resp')) =>
          /\ StoreUnchanged
          /\ resp'.inv = {}
          /\ resp'.result = errorOf(resp')
    /\ shares' # shares =>
          \E p \in Procs : /\ req[p].op = "shareNote"
                           /\ req[p].pc \in {"create", "save"}
                           /\ req[p].loaded.userId = req[p].userId
                           /\ req[p].sharedWith \in Users

C16_ListedError(r) ==
    IF ~IsOwner(r.noteId, r.userId) THEN ErrNotFoundOrDenied ELSE ErrUserNotFound

C16_ListedOrSelfShare(r) ==
    IF r.sharedWith = r.userId THEN ErrSelfShare ELSE C16_ListedError(r)

OneSharePerPair ==
    \A n \in NoteIds, su \in UserIds : Cardinality(ShareRows(n, su)) <= 1

\* the write of a shareNote call for (n, su) with permission perm leaves
\* exactly one row for (n, su), carrying perm, and the rows of other pairs as
\* they were; when that row was there already, the shares are unchanged
C17_Step ==
    \A p \in Procs :
        (/\ req[p].op = "shareNote" /\ req[p].pc \in {"create", "save"}
         /\ req'[p].pc = "invalidate") =>
            LET n == req[p].noteId
                su == req[p].sharedWith
                row == NoteShare(n, su, PermissionOrDefault(req[p].permission))
            IN /\ ShareRows(n, su)' = {row}
               /\ shares' \ {row} = shares \ ShareRows(n, su)
               /\ row \in shares => shares' = shares

\* C17: in every reachable state there is at most one NoteShare row per
\* (noteId, sharedWithUserId), concurrent shareNote calls for one pair
\* included; a share of (N, U) at a permission leaves exactly one row for
\* (N, U) with that permission (read then edit: one row with edit), and a
\* repeated share with the same permission leaves the shares as they were.
C17_ShareUpsert == []OneSharePerPair /\ [][C17_Step]_vars

\* two shareNote calls for one pair have both written and one row is there
C17_Witness ==
    \E p, q \in Procs :
        /\ p # q
        /\ req[p].op = "shareNote" /\ req[p].pc = "invalidate"
        /\ req[q].op = "shareNote" /\ req[q].pc = "invalidate"
        /\ req[p].noteId = req[q].noteId /\ req[p].sharedWith = req[q].sharedWith
        /\ Cardinality(ShareRows(req[p].noteId, req[p].sharedWith)) = 1

\* ---- C18 -------------------------------------------------------------------
NoShareWithOwner ==
    \A s \in shares : s.sharedWithUserId # notes[s.noteId].userId

\* a shareNote call throws the self-share error exactly when it names the
\* caller as the target, whatever the note id, and changes nothing; no call
\* naming the caller passes its checks
C18_Step ==
    /\ ThrowStep("shareNote") =>
          /\ resp'.result = ErrSelfShare <=> resp'.sharedWith = resp'.userId
          /\ resp'.result = ErrSelfShare => StoreUnchanged /\ resp'.inv = {}
    /\ \A p \in Procs :
          StartStep(p, "shareNote") => req'[p].sharedWith # req'[p].userId

\* C18: in every reachable state no NoteShare row names the owner of its note
\* as sharedWithUserId; shareNote with ownerId = sharedWithUserId is rejected
\* with 'Cannot share note with yourself', whatever the note id, before any
\* write.
C18_NoSelfShare == []NoShareWithOwner /\ [][C18_Step]_vars

\* the owner of a shared live note asked to share it with itself
C18_Witness ==
    /\ resp.op = "shareNote" /\ resp.result = ErrSelfShare
    /\ IsOwner(resp.noteId, resp.userId)
    /\ resp.sharedWith = resp.userId
    /\ \E s \in shares : s.noteId = resp.noteId
    /\ ShareRows(resp.noteId, resp.userId) = {}

\* ---- C19 -------------------------------------------------------------------
NotFoundErrors == {ErrNotFound, ErrNotFoundOrDenied, ErrAccessDenied}
\* the note row n is soft-deleted
Deleted(n) == n \in 1..Len(notes) /\ notes[n].deleted

\* the delete of a note is a step of its owner's deleteNote, leaves the row's
\* title, content and version and every NoteVersion row as they were, and is
\* never undone; from then on no write call on the note passes its checks,
\* every call on it throws, with the store unchanged, an error that errorsOf
\* allows, and getAllNotes and search do not return it
C19_StepWith(errorsOf(_)) ==
    /\ \A n \in 1..Len(notes) :
          /\ notes[n].deleted => notes'[n].deleted
          /\ (notes'[n].deleted /\ ~notes[n].deleted) =>
                /\ NoteFields(notes'[n]) = NoteFields(notes[n])
                /\ versions' = versions
                /\ \E p \in Procs : /\ req[p].op = "deleteNote" /\ req[p].noteId = n
                                    /\ req[p].userId = notes[n].userId
    /\ \A p \in Procs, op \in WriteOps :
          StartStep(p, op) => ~Deleted(req'[p].noteId)
    /\ \A op \in ProbeOps :
          (ThrowStep(op) /\ Deleted(resp'.noteId)) =>
              /\ StoreUnchanged
              /\ resp'.rows = {}
              /\ resp'.result \in errorsOf(resp')
    /\ \A op \in {"getAllNotes", "searchNotesByKeywords"} :
          ReadStep(op) => \A n \in resp'.rows : ~Deleted(n)

C19_NotFoundOnly(r) == NotFoundErrors

C19_NotFoundOrSelfShare(r) ==
    IF r.op = "shareNote" /\ r.sharedWith = r.userId THEN {ErrSelfShare} ELSE NotFoundErrors

\* C19 as stated: after the owner's deleteNote, getNoteById, updateNote,
\* revertToVersion, shareNote, addAttachment and deleteNote on the note all
\* fail with a not-found error, getAllNotes and search do not return it, and
\* the delete leaves the row's title, content, version and the NoteVersion
\* rows unchanged.
C19_DeletedIsNotFound == [][C19_StepWith(C19_NotFoundOnly)]_vars

\* C19 amended: as stated, except that shareNote naming the caller itself as
\* the target fails with the self-share error on a deleted note too.
C19_DeletedIsGone == [][C19_StepWith(C19_NotFoundOrSelfShare)]_vars

\* the owner's update of its deleted note, at the note's version, was refused
C19_Witness ==
    /\ resp.op = "updateNote" /\ resp.result = ErrNotFound
    /\ Deleted(resp.noteId)
    /\ notes[resp.noteId].userId = resp.userId
    /\ notes[resp.noteId].version = resp.ver
    /\ VersionRows(resp.noteId, resp.ver) # {}

\* ---- C20 -------------------------------------------------------------------
\* C20: an updateNote or revertToVersion reaches its cache signal by its commit
\* step only, with its NoteVersion row in the store; a call that returns has
\* invalidated (the caller's entries) exactly when its transaction committed,
\* and a call that throws at its checks or is rolled back invalidates nothing.
C20_Step ==
    \A op \in Mutations :
        /\ ThrowStep(op) => resp'.inv = {} /\ resp'.tx = "rolledback"
        /\ \A p \in Procs :
              /\ (req'[p].op = op /\ req'[p].pc = "invalidate" /\ req[p].pc # "invalidate") =>
                    /\ CommitStep(p, op)
                    /\ versions'[Len(versions')].changedBy = req[p].userId
                    /\ log'[Len(log')].op = op
              /\ ReturnStep(p, op) =>
                    /\ resp'.tx \in {"committed", "rolledback"}
                    /\ resp'.tx = "committed" <=> req[p].pc = "invalidate"
                    /\ resp'.inv = IF resp'.tx = "committed" THEN {req[p].userId} ELSE {}

C20_InvalidateAfterCommit == [][C20_Step]_vars

\* a revert committed, its row is in the store, and then the cache was signalled
C20_Witness ==
    /\ resp.op = "revertToVersion" /\ resp.result = Ok
    /\ resp.tx = "committed" /\ resp.inv = {resp.userId}
    /\ \E i \in RowsOf(resp.noteId) :
          log[i].op = "revertToVersion" /\ versions[i].changedBy = resp.userId

\* ---- C21 -------------------------------------------------------------------
MutationOps ==
    {"createNote", "updateNote", "revertToVersion", "deleteNote", "shareNote", "addAttachment"}

\* C21: a failure of the cache invalidation never fails or undoes a mutation.
\* Whatever the state of the Redis client and server, the invalidation step
\* of each of the six mutations returns success to the caller, with the
\* transaction finished (no row lock held, never rolled back) and the stored
\* notes, versions, shares and attachments left as the writes made them.
C21_Step ==
    \A p \in Procs :
        (req[p].pc = "invalidate" /\ req'[p].pc = "done") =>
            /\ req[p].op \in MutationOps
            /\ resp'.result = Ok
            /\ resp'.tx # "rolledback"
            /\ req[p].op \in Mutations => resp'.tx = "committed"
            /\ \A n \in NoteIds : rowLock[n] # p
            /\ StoreUnchanged /\ rowLock' = rowLock

C21_InvalidationFailureIsHarmless == [][C21_Step]_vars

\* an update committed and returned success although its cache signal failed
C21_Witness ==
    /\ resp.op = "updateNote" /\ resp.result = Ok /\ resp.tx = "committed"
    /\ resp.cacheErrors > 0
    /\ \E i \in 1..Len(log) : log[i].op = "updateNote"

\* ---- C22 -------------------------------------------------------------------
\* the users whose note views show note n: its owner and the holders of a share
Affected(n) == {notes[n].userId} \cup {s.sharedWithUserId : s \in {t \in shares : t.noteId = n}}

\* C22: a successful updateNote or revertToVersion invalidates the cached
\* note views of every affected user: the cache signals of the call cover the
\* note's owner and every user the note is shared with, not only the caller.
C22_Step ==
    \A p \in Procs : \A op \in Mutations :
        (ReturnStep(p, op) /\ resp'.result = Ok) => Affected(req[p].noteId) \subseteq resp'.inv

C22_AllAffectedInvalidated == [][C22_Step]_vars

\* ---- vocabulary of the HTTP properties ------------------------------------
\* the user a cache entry was computed for
EntryUser(e) == e.body.for
\* this step is an invalidateCache call of client c's request that Redis serves
SignalStep(c) == hreq[c].pc = "invalidate" /\ redisUp /\ hreq'[c] # hreq[c]
\* the user whose pattern the next invalidateCache call of client c's request uses
Signalled(c) == Head(hreq[c].pending)
\* entries of user u that were computed from data older than the current
Stale(c, u) == {e \in c : EntryUser(e) = u /\ e.body.epoch < epoch}
\* the cache keys of the GET endpoints of user u
NoteKeys(u) == {CacheKey(OriginalUrl(r.path, r.query), u) : r \in GetRequests}

\* ---- C23 -------------------------------------------------------------------
\* C23: every successful shareNote issues cache invalidation for both the
\* owner and the target user after the share row is written, and once a
\* signal has been served by Redis the owner, respectively the target, has
\* no cached list or detail left that was computed before the share.
C23_Step ==
    \A c \in Clients :
        /\ (hreq[c].handler = "shareNote" /\ hreq[c].pc = "handler" /\ hreq'[c].pc = "invalidate")
              => hreq'[c].pending = <<hreq[c].user, hreq[c].pending[2]>>
        /\ (hreq[c].handler = "shareNote" /\ SignalStep(c))
              => Stale(cache', Signalled(c)) = {}

C23_ShareInvalidatesBoth == [][C23_Step]_vars

\* ---- C24 -------------------------------------------------------------------
\* C24: a version conflict is reported distinctly from not-found and
\* permission-denied. An update that the service refuses for its version is
\* answered with 409 and is the only answer with 409; one refused as not
\* found or not permitted is answered with 404, which no conflict gets.
C24_ConflictIsDistinct ==
    hresp.handler = "updateNote" =>
        /\ hresp.status = 409 <=> hresp.outcome = ErrConflict
        /\ hresp.outcome \in {ErrNotFound, ErrDenied} => hresp.status = 404
        /\ hresp.status = 404 => hresp.outcome \in {ErrNotFound, ErrDenied}

\* an update was refused for its version and answered with 409
C24_Witness ==
    hresp.handler = "updateNote" /\ hresp.outcome = ErrConflict /\ hresp.status = 409

\* ---- C25 -------------------------------------------------------------------
\* C25: a GET request to the note router's /search path is dispatched to
\* searchNotes and never to getNoteById.
C25_SearchReachesSearchNotes ==
    /\ \A c \in Clients :
          (hreq[c].method = "GET" /\ hreq[c].path = <<"/search">>)
              => hreq[c].handler = "searchNotes"
    /\ (hresp.method = "GET" /\ hresp.path = <<"/search">>) => hresp.handler = "searchNotes"

\* ---- C26 -------------------------------------------------------------------
\* C26: cache isolation between users. Every cache entry is stored under a
\* key that ends with the id of the user it was computed for; a response
\* answered from the cache was computed for the user of the request; the
\* pattern of a user matches no key of another user, under the mounted path
\* or the path the pattern names; and an invalidation for one user leaves
\* every entry of the other users in the cache.
C26_Isolated ==
    /\ \A e \in cache : e.key[Len(e.key)] = IdText(EntryUser(e))
    /\ hresp.fromCache => hresp.body.for = hresp.user
    /\ \A a \in Users : \A b \in Users \ {a} : \A r \in GetRequests :
          /\ ~GlobMatch(InvalidationPattern(a), CacheKey(OriginalUrl(r.path, r.query), b))
          /\ ~GlobMatch(InvalidationPattern(a),
                        CacheKey(<<"/api", "/v1", "/notes">> \o r.path \o r.query, b))
          /\ GlobMatch(InvalidationPattern(a),
                       CacheKey(<<"/api", "/v1", "/notes">> \o r.path \o r.query, a))

C26_Step ==
    \A c \in Clients :
        (hreq[c].pc = "invalidate" /\ hreq'[c] # hreq[c]) =>
            \A e \in cache : EntryUser(e) # Signalled(c) => e \in cache'

C26_CacheIsolation == []C26_Isolated /\ [][C26_Step]_vars

\* a user is answered from the cache while the cache holds an entry that was
\* computed for another user and for the same URL
C26_Witness ==
    /\ hresp.fromCache
    /\ \E e \in cache :
          /\ EntryUser(e) # hresp.user
          /\ e.key = CacheKey(OriginalUrl(hresp.path, hresp.query), EntryUser(e))

\* ---- C29 -------------------------------------------------------------------
\* C29: the invalidation pattern that a mutation issues for user U matches
\* every cache key that cacheMiddleware writes for U's list, detail and
\* search under the mounted path: once Redis has served the signal, none of
\* these keys is in the cache, so U's next GET is answered by the handler.
C29_Step ==
    \A c \in Clients :
        SignalStep(c) => \A e \in cache' : e.key \notin NoteKeys(Signalled(c))

C29_PatternMatchesKeys == [][C29_Step]_vars

\* ---- C30 -------------------------------------------------------------------
\* client c's request is inside cacheMiddleware
InMiddleware(c) == hreq[c].pc \in {"cache", "get"}

\* C30: for every request cacheMiddleware does exactly one of two things. A
\* step of the middleware either stays inside it (the connect), or calls
\* next once with nothing sent, or sends the body stored for the request's
\* URL and user without calling next; a request that is not a GET gets next
\* at once with Redis untouched; next is never called twice; and the
\* middleware always has a step to take.
C30_Step ==
    \A c \in Clients :
        (InMiddleware(c) /\ hreq'[c] # hreq[c]) =>
            /\ \/ /\ hreq'[c].pc = "get" /\ hreq[c].pc = "cache"
                  /\ hreq'[c].nextCalls = 0 /\ hreq'[c].jsonCalls = 0
                  /\ hresp' = hresp
               \/ /\ hreq'[c].pc = "handler"
                  /\ hreq'[c].nextCalls = 1 /\ hreq'[c].jsonCalls = 0
                  /\ hresp' = hresp
                  /\ hreq'[c].store => (hreq[c].method = "GET" /\ Cached(KeyOf(hreq[c])) = {})
               \/ /\ hreq'[c].pc = "idle"
                  /\ hreq[c].method = "GET"
                  /\ hresp'.fromCache /\ hresp'.nextCalls = 0 /\ hresp'.jsonCalls = 1
                  /\ CacheEntry(KeyOf(hreq[c]), hresp'.body) \in cache
            /\ hreq[c].method # "GET" =>
                  hreq'[c].pc = "handler" /\ UNCHANGED <<redis, cache>>
            /\ cache' = cache

C30_Inv ==
    /\ \A c \in Clients :
          /\ hreq[c].nextCalls <= 1
          /\ InMiddleware(c) => hreq[c].nextCalls = 0 /\ hreq[c].jsonCalls = 0
          /\ InMiddleware(c) => ENABLED (cacheMiddleware_enter(c) \/ cacheMiddleware_get(c))
    /\ hresp.nextCalls + (IF hresp.fromCache THEN 1 ELSE 0) <= 1

C30_CacheOrNext == []C30_Inv /\ [][C30_Step]_vars

\* both cases have happened: the last response came from the cache without
\* next, and a request that is not a GET has passed the middleware by next
C30_Witness ==
    /\ hresp.fromCache /\ hresp.nextCalls = 0 /\ hresp.jsonCalls = 1
    /\ \E c \in Clients :
          hreq[c].method # "GET" /\ hreq[c].pc = "handler" /\ hreq[c].nextCalls = 1

\* ---- C27 -------------------------------------------------------------------
\* this step answers a refreshToken request
RefreshStep == aresp'.seq = aresp.seq + 1 /\ aresp'.op = "refreshToken"

\* C27: refreshToken issues a new access token only when the presented,
\* validly signed refresh token equals the one stored for its user; a signed
\* token that differs from the stored one, or for which nothing is stored,
\* is answered with 401 and no access token, whatever the state of the
\* Redis connection.
C27_Step ==
    RefreshStep =>
        /\ aresp'.access =>
              (ValidlySigned(aresp'.token) /\ stored[aresp'.token.user] = aresp'.token)
        /\ (ValidlySigned(aresp'.token) /\ stored[aresp'.token.user] # aresp'.token) =>
              (aresp'.status = 401 /\ ~aresp'.access)

C27_OnlyStoredTokenRefreshes == [][C27_Step]_vars

\* ---- C28 -------------------------------------------------------------------
\* no call but the createNote of slot p has acted on note n so far
FreshlyCreated(p, n) ==
    /\ notes[n] = req[p].note
    /\ RowsOf(n) = {}
    /\ \A s \in shares : s.noteId # n
    /\ \A i \in 1..Len(attachments) : attachments[i].noteId # n
    /\ \A q \in Procs \ {p} : req[q].noteId # n

\* the store holds note n as createNote(u, title, content) leaves it
AsCreatedIn(ns, vs, ss, as, n, u, title, content) ==
    /\ n \in 1..Len(ns) /\ ns[n] = Note(n, u, title, content)
    /\ \E i \in 1..Len(vs) :
          /\ vs[i] = NoteVersion(n, title, content, 1, u)
          /\ \A j \in 1..Len(vs) : vs[j].noteId = n => j = i
    /\ \A s \in ss : s.noteId # n
    /\ \A i \in 1..Len(as) : as[i].noteId # n

AsCreated(n, u, title, content) ==
    AsCreatedIn(notes, versions, shares, attachments, n, u, title, content)

\* C28: createNote(userId, title, content) yields a note owned by userId with
\* version 1 and exactly one NoteVersion row for it, numbered 1, with the
\* same title and content and changedBy = userId, and with no shares and no
\* attachments. The note that the call returns is always this one; the
\* stored note is in this state when the second write of the call is done,
\* unless another call has acted on the note in between, and when the call
\* has returned and is the only one so far.
C28_Step ==
    \A p \in Procs :
        (req[p].op = "createNote" /\ req[p].pc = "version" /\ req'[p].pc = "invalidate") =>
            /\ req[p].note = Note(req[p].noteId, req[p].userId, req[p].title, req[p].content)
            /\ \E i \in 1..Len(versions') :
                  /\ versions'[i] = NoteVersion(req[p].noteId, req[p].title, req[p].content,
                                                1, req[p].userId)
                  /\ \A j \in 1..Len(versions') :
                        (versions'[j].noteId = req[p].noteId /\ versions'[j].version = 1)
                            => j = i
            /\ UNCHANGED <<notes, shares, attachments>>
            /\ FreshlyCreated(p, req[p].noteId) =>
                  AsCreatedIn(notes', versions', shares', attachments',
                              req[p].noteId, req[p].userId, req[p].title, req[p].content)

C28_Sequential ==
    (started = 1 /\ resp.op = "createNote" /\ resp.result = Ok) =>
        /\ resp.noteId \in 1..Len(notes)
        /\ AsCreated(resp.noteId, resp.userId, notes[resp.noteId].title,
                     notes[resp.noteId].content)

C28_CreateYieldsVersionOne == []C28_Sequential /\ [][C28_Step]_vars

\* a createNote has returned and left its note at version 1 with one row
C28_Witness ==
    /\ resp.op = "createNote" /\ resp.result = Ok
    /\ AsCreated(resp.noteId, resp.userId, "t1", "c1")

\* ---- C31 -------------------------------------------------------------------
\* the transaction of slot p is open: opened by the call, not yet finished
TxOpen(p) ==
    req[p].op \in Mutations /\ req[p].pc \in {"save", "createVersion", "commit"}

\* C31: every transaction opened by updateNote or revertToVersion is
\* finished exactly once and the call always terminates. A call that throws
\* at its checks is rolled back and throws the error of the check; an open
\* transaction ends by one step, which either commits it (the call then
\* returns success and is never rolled back) or rolls it back and rethrows;
\* a finished call holds no row lock; and every call that has started
\* returns or throws in the end.
C31_Step ==
    /\ \A op \in Mutations :
          ThrowStep(op) => (resp'.tx = "rolledback" /\ resp'.result \notin {Ok, None})
    /\ \A p \in Procs :
          /\ (TxOpen(p) /\ ~TxOpen(p)') =>
                \/ CommitStep(p, req[p].op)
                \/ /\ ReturnStep(p, req[p].op)
                   /\ resp'.tx = "rolledback" /\ resp'.result = ErrStorage
                   /\ StoreUnchanged
          /\ (req[p].op \in Mutations /\ req[p].pc = "invalidate" /\ req'[p] # req[p]) =>
                (ReturnStep(p, req[p].op) /\ resp'.tx = "committed" /\ resp'.result = Ok)
          /\ (~TxOpen(p) /\ TxOpen(p)') => StartStep(p, req'[p].op)

C31_Inv ==
    /\ \A n \in NoteIds : rowLock[n] # 0 => TxOpen(rowLock[n])
    /\ resp.op \in Mutations => resp.tx \in {"committed", "rolledback"}
    /\ resp.op \in Mutations => (resp.tx = "committed" <=> resp.result = Ok)

C31_TransactionFinishedOnce ==
    /\ []C31_Inv
    /\ [][C31_Step]_vars
    /\ \A p \in Procs : (req[p].op \in Mutations /\ req[p].pc # "done") ~> (req[p].pc = "done")

\* an update was rolled back after its save while a revert waits for the
\* row, which is free again
C31_Witness ==
    /\ resp.op = "updateNote" /\ resp.tx = "rolledback" /\ resp.result = ErrStorage
    /\ \E p \in Procs : req[p].op = "revertToVersion" /\ req[p].pc = "save"
    /\ \A n \in NoteIds : rowLock[n] = 0

\* ---- C32 -------------------------------------------------------------------
\* C32: an updateNote commits only if, at the moment of the commit, its caller
\* owns the note or holds an edit share on it.
C32_Step ==
    \A p \in Procs :
        CommitStep(p, "updateNote") =>
            (notes[req[p].noteId].userId = req[p].userId
               \/ HasEditShare(req[p].noteId, req[p].userId))

C32_AuthorizedAtCommit == [][C32_Step]_vars

\* ---- C33 -------------------------------------------------------------------
AuxiliaryOps == {"shareNote", "addAttachment"}
\* slot q takes a step of a shareNote or an addAttachment
AuxiliaryStep(q) ==
    \/ \E op \in AuxiliaryOps : StartStep(q, op)
    \/ req[q].op \in AuxiliaryOps /\ req'[q] # req[q]

\* C33: no step of a shareNote or an addAttachment, successful or failing,
\* changes a notes row, a version row or a row lock, or the state of another
\* call in flight; so the outcome of the version check of an updateNote, for
\* any caller and expected version, and the version number an update in
\* flight is about to commit are the same after the step as before it.
C33_Step ==
    /\ \A op \in AuxiliaryOps : ThrowStep(op) => UNCHANGED <<notes, versions, log, rowLock>>
    /\ \A q \in Procs :
          AuxiliaryStep(q) =>
            /\ UNCHANGED <<notes, versions, log, rowLock>>
            /\ \A p \in Procs \ {q} : req'[p] = req[p]
            /\ \A n \in NoteIds, u \in Users, ev \in VersionArgs, h \in BOOLEAN :
                  updateNote_check(FindLiveNote(n)', h, u, ev)
                      = updateNote_check(FindLiveNote(n), h, u, ev)

C33_SharesOutsideVersionCounter == [][C33_Step]_vars

\* a share has been written while an update that loaded version 1 is about
\* to commit
C33_Witness ==
    \E p, q \in Procs :
        /\ req[p].op = "updateNote" /\ req[p].pc = "commit" /\ req[p].loaded.version = 1
        /\ req[q].op = "shareNote" /\ req[q].pc = "invalidate"
        /\ shares # {}

\* ---- C34 -------------------------------------------------------------------
\* C34: updateNote checks in the order load, authorize, compare version. On
\* a missing or soft-deleted note it throws not-found, whoever calls and
\* whatever version is sent; on a live note a caller who is neither owner
\* nor Editor is thrown permission-denied, whatever version is sent; the
\* conflict error is thrown only to a caller who may edit the note and sent
\* a version other than the current one.
C34_Step ==
    ThrowStep("updateNote") =>
        /\ ~IsLive(resp'.noteId) => resp'.result = ErrNotFound
        /\ (IsLive(resp'.noteId) /\ NotWriter(resp'.noteId, resp'.userId)) =>
              resp'.result = ErrDenied
        /\ resp'.result = ErrConflict =>
              /\ CanEdit(resp'.noteId, resp'.userId)
              /\ notes[resp'.noteId].version # resp'.ver

C34_CheckOrder == [][C34_Step]_vars

\* a caller without access sent a version that is not the current one and
\* was answered permission-denied
C34_Witness ==
    /\ resp.op = "updateNote" /\ resp.result = ErrDenied
    /\ IsLive(resp.noteId) /\ NotWriter(resp.noteId, resp.userId)
    /\ notes[resp.noteId].version # resp.ver

\* ---- C35 -------------------------------------------------------------------
\* C35: for every updateNote or revertToVersion that committed version k of a
\* note, the version store holds one record for (note, k), the one that call
\* inserted with its title, its content and its caller as changedBy.
C35_NoCommittedWriteLost ==
    \A i \in 1..Len(versions) :
        log[i].op \in Mutations =>
            VersionRows(versions[i].noteId, versions[i].version) = {i}

\* ---- C36 -------------------------------------------------------------------
\* the deleteNote of note n has completed: the row is marked and no
\* deleteNote on it is in flight
DeleteCompleted(n) ==
    /\ Deleted(n)
    /\ \A p \in Procs : ~(req[p].op = "deleteNote" /\ req[p].noteId = n)

\* C36: once the deleteNote of a note has completed, no step changes the
\* note's title, content or version, and no updateNote or revertToVersion
\* appends a NoteVersion row for it.
C36_Step ==
    \A n \in 1..Len(notes) :
        DeleteCompleted(n) =>
            /\ NoteFields(notes'[n]) = NoteFields(notes[n])
            /\ \A i \in (Len(versions) + 1)..Len(versions') :
                  versions'[i].noteId = n => log'[i].op \notin Mutations

C36_DeletedNeverMutated == [][C36_Step]_vars

\* ---- C38 -------------------------------------------------------------------
\* C38: the cache holds only bodies of successful handler responses, and no
\* response served from the cache carries the error body of an earlier
\* request.
C38_OnlySuccessCached ==
    /\ \A e \in cache : e.body.result = Ok
    /\ hresp.fromCache => hresp.body.result = Ok

\* ---- C37 -------------------------------------------------------------------
\* every cache signal of an updateNote of user u that committed has completed
InvalidationDone(u) ==
    \A p \in Procs : ~(req[p].op = "updateNote" /\ req[p].userId = u /\ req[p].pc = "invalidate")

\* what the handler of client c read is older than an update of its user
\* that committed since
ReadBeforeCommit(c) ==
    \E i \in (hreq[c].read + 1)..Len(versions) :
        log[i].op = "updateNote" /\ versions[i].changedBy = hreq[c].user

\* C37: a note view that a GET handler computed before an update of the same
\* user committed is not written to the cache once the cache signal of that
\* update has completed.
C37_Step ==
    \A c \in Clients :
        (/\ hreq[c].pc = "json" /\ hreq'[c].pc = "idle"
         /\ hreq[c].handler \in {"getAllNotes", "getNoteById"} /\ hreq[c].outcome = Ok
         /\ ReadBeforeCommit(c) /\ InvalidationDone(hreq[c].user))
            => \A e \in cache' : e.key = KeyOf(hreq[c]) => e \in cache

C37_NoStaleFill == [][C37_Step]_vars
====
